---- MODULE Spec2Model ----
\* A model of vibe-stats' data-collection client: the permit pool and the
\* Rate Governor around every GET (github/client.py, github/rate_limit.py),
\* link-header pagination, the contributor-stats retry loop and the file
\* cache (cache.py).
\*
\* asyncio runs every task on one thread, so a task runs without interruption
\* from one suspension to the next.  An action below is one such run: it starts
\* where a task was suspended (or was created) and ends where the task next
\* suspends (waiting for a permit, sleeping, awaiting the network) or returns.
EXTENDS Integers, Sequences, FiniteSets, TLC

\* ---------------------------------------------------------------- bounds
NumTasks == 2          \* fetch tasks created by the collector
Concurrency == 1       \* GitHubClient(concurrency=...): size of the permit pool
MaxNow == 1            \* the clock ticks second by second up to here, then only jumps to timers
MaxPages == 3          \* longest chain of pages the server holds
MaxRetries == 3        \* largest retries argument of get_contributor_stats

\* ------------------------------------------------------ program constants
Threshold == 10        \* RateLimitMonitor(threshold=10)
MaxWait == 3600        \* cap of one wait_if_needed sleep
DEFAULT_TTL == 3600    \* FileCache(ttl=DEFAULT_TTL)
MaxBackoff == 30       \* cap of one contributor-stats backoff sleep
DefaultRetries == 8    \* get_contributor_stats(retries=8)

Tasks == 1..NumTasks

\* The keys of the file cache: the URL and parameters of each task's
\* operation, and of the user-account endpoint its list_repos falls back to.
Keys == 1..(2 * NumTasks)

Max(a, b) == IF a >= b THEN a ELSE b
Min(a, b) == IF a <= b THEN a ELSE b

\* ----------------------------------------------------------------- values
\* Optional[int]: None is [known |-> FALSE].
None == [known |-> FALSE, v |-> 0]
Some(x) == [known |-> TRUE, v |-> x]

\* A response header that should carry a number: absent, a number, or text
\* that int()/float() rejects.
HdrAbsent == [h |-> "absent", v |-> 0]
HdrNum(x) == [h |-> "num", v |-> x]
HdrBad == [h |-> "bad", v |-> 0]

\* A JSON body: a list of items, an object, or nothing.
JList(s) == [t |-> "list", items |-> s]
JObj(x) == [t |-> "obj", items |-> <<x>>]
JNull == [t |-> "null", items |-> <<>>]

VARIABLES
    now,        \* time.time(), in seconds
    sem,        \* GitHubClient._semaphore._value: free permits
    waiters,    \* GitHubClient._semaphore._waiters: FIFO of suspended tasks
    remaining,  \* RateLimitMonitor._remaining
    reset_at,   \* RateLimitMonitor._reset_at
    no_cache,   \* GitHubClient(no_cache=...): _cache is None
    cache,      \* FileCache: key -> entry
    pc,         \* where each task is suspended
    wake,       \* the time a sleeping task's timer fires
    tv,         \* each task's local variables
    \* aggregate_org_report (aggregator.py):
    args,          \* its arguments
    server,        \* what the platform holds: the repository list and each repository's data
    phase,         \* where the call is: "start", "collecting", "returned", "raised"
    listed,        \* how often client.list_repos has been called
    repos,         \* the resolved repository list
    collected,     \* per resolved repository: what collect_and_update has returned
    fetching,      \* per resolved repository: where its five fetch tasks are
    failed_repos,  \* the list collect_and_update appends to
    report         \* the OrgReport returned, or the exception raised

client_vars == <<now, sem, waiters, remaining, reset_at, no_cache, cache, pc, wake, tv>>
aggregator_vars ==
    <<args, server, phase, listed, repos, collected, fetching, failed_repos, report>>
vars == <<client_vars, aggregator_vars>>
\* The state the operators below transform (everything but the clock and the
\* client's construction-time options).
World == [sem |-> sem, waiters |-> waiters, remaining |-> remaining,
          reset_at |-> reset_at, cache |-> cache, pc |-> pc, wake |-> wake,
          tv |-> tv]

SetWorld(w) ==
    /\ sem' = w.sem
    /\ waiters' = w.waiters
    /\ remaining' = w.remaining
    /\ reset_at' = w.reset_at
    /\ cache' = w.cache
    /\ pc' = w.pc
    /\ wake' = w.wake
    /\ tv' = w.tv

\* ------------------------------------------------------------ FileCache
NoEntry == [present |-> FALSE, ts |-> 0, value |-> JNull]

\* FileCache.get: [w |-> the cache afterwards, value |-> the value or JNull for
\* Python's None].  An entry older than the TTL is unlinked.
CacheGet(w, key) ==
    LET e == w.cache[key] IN
    IF ~e.present THEN [w |-> w, value |-> JNull]
    ELSE IF now - e.ts > DEFAULT_TTL
    THEN [w |-> [w EXCEPT !.cache[key] = NoEntry], value |-> JNull]
    ELSE [w |-> w, value |-> e.value]

\* FileCache.set; written is FALSE when write_text raises OSError, which set
\* swallows.
CacheSet(w, key, value, written) ==
    IF written
    THEN [w EXCEPT !.cache[key] = [present |-> TRUE, ts |-> now, value |-> value]]
    ELSE w

\* ------------------------------------------------------- RateLimitMonitor
\* ShouldWait with the threshold itself let through (< for <=).
ShouldWaitStrict(rem, rst) == rem.known /\ rem.v < Threshold /\ rst.known

\* The condition of wait_if_needed.
ShouldWait(rem, rst) == rem.known /\ rem.v <= Threshold /\ rst.known

\* wait_seconds before the cap.
RawWait(rst, at) == Max(0, rst - at) + 1

\* SleepSeconds without the cap.
SleepSecondsUncapped(rst, at) == RawWait(rst, at)

\* The argument of asyncio.sleep.
SleepSeconds(rst, at) == Min(RawWait(rst, at), MaxWait)

\* RateLimitMonitor.update: int() and float() raise ValueError on text that is
\* no number; _remaining is assigned before the reset header is parsed.
Update(w, resp) ==
    LET w1 == IF resp.rl_remaining.h = "num"
              THEN [w EXCEPT !.remaining = Some(resp.rl_remaining.v)]
              ELSE w
        w2 == IF resp.rl_reset.h = "num"
              THEN [w1 EXCEPT !.reset_at = Some(resp.rl_reset.v)]
              ELSE w1
    IN  IF resp.rl_remaining.h = "bad" THEN [w |-> w, raised |-> TRUE]
        ELSE IF resp.rl_reset.h = "bad" THEN [w |-> w1, raised |-> TRUE]
        ELSE [w |-> w2, raised |-> FALSE]

\* ------------------------------------------------------------ the permits
\* Locked with the counter forgotten: only the queue is looked at.
LockedQueueOnly(w) ==
    \/ w.waiters # <<>>
    \/ \E u \in Tasks : w.pc[u] = "granted"

\* asyncio.Semaphore.locked: no free permit, or tasks queued before this one
\* (a waiter that was handed a permit stays queued until it runs).
Locked(w) ==
    \/ w.sem = 0
    \/ w.waiters # <<>>
    \/ \E u \in Tasks : w.pc[u] = "granted"

\* Release that wakes no waiter: the permit goes back to the counter and the
\* queue is left as it is.
ReleaseUnwoken(w) == [w EXCEPT !.sem = @ + 1]

\* asyncio.Semaphore.release: the permit goes to the first waiter, if any.
Release(w) ==
    IF w.waiters = <<>>
    THEN [w EXCEPT !.sem = @ + 1]
    ELSE [w EXCEPT !.waiters = Tail(@), !.pc[Head(w.waiters)] = "granted"]

\* asyncio.Semaphore.acquire after its wait: a permit that has become free
\* meanwhile goes to the next waiter.
AcquireResume(w) == IF w.sem > 0 /\ w.waiters # <<>> THEN
                        [w EXCEPT !.sem = @ - 1, !.waiters = Tail(@),
                                  !.pc[Head(w.waiters)] = "granted"]
                    ELSE w

\* ------------------------------------------------------ GitHubClient._get
\* self._client.get(url, params): the request leaves, the task awaits.
Issue(w, t) ==
    [w EXCEPT !.pc[t] = "in_flight", !.wake[t] = 0, !.tv[t].reqs = @ + 1,
              !.tv[t].chk_at = 0, !.tv[t].chk_rst = 0]

\* WaitIfNeeded with the sleep never taken.
WaitIfNeededSkipped(w, t) == Issue(w, t)

\* await self._rate_limit.wait_if_needed(), then the request when there is no
\* sleep (no suspension lies between the two).
WaitIfNeeded(w, t) ==
    LET sleeps == /\ ShouldWait(w.remaining, w.reset_at)
                  /\ RawWait(w.reset_at.v, now) > 0
    IN  IF sleeps
        THEN [w EXCEPT !.pc[t] = "rate_wait",
                       !.wake[t] = now + SleepSeconds(w.reset_at.v, now),
                       !.tv[t].chk_at = now, !.tv[t].chk_rst = w.reset_at.v]
        ELSE Issue(w, t)

\* _get up to its first suspension: async with self._semaphore.
Get(w, t) ==
    IF Locked(w)
    THEN [w EXCEPT !.waiters = Append(@, t), !.pc[t] = "sem_wait"]
    ELSE WaitIfNeeded([w EXCEPT !.sem = @ - 1], t)

IsSuccess(status) == status >= 200 /\ status <= 299

Ret(kind, status, body, link) ==
    [kind |-> kind, status |-> status, body |-> body, link |-> link]
NoRet == Ret("none", 0, JNull, <<>>)

\* GetReturn with the status raised before the Rate Governor is told: the
\* headers of an error response are dropped.
GetReturnRaiseFirst(w, tr) ==
    IF tr.kind # "response"
    THEN [w |-> Release(w), ret |-> Ret(tr.kind, tr.status, JNull, <<>>)]
    ELSE IF ~IsSuccess(tr.status)
    THEN [w |-> Release(w), ret |-> Ret("HTTPStatusError", tr.status, JNull, <<>>)]
    ELSE LET u == Update(w, tr) IN
         IF u.raised
         THEN [w |-> Release(u.w), ret |-> Ret("ValueError", 0, JNull, <<>>)]
         ELSE [w |-> Release(u.w), ret |-> Ret("ok", tr.status, tr.body, tr.link)]

\* GetReturn with the permit kept when the answer is a 202: the caller holds
\* it through its backoff sleep.
GetReturnHold202(w, tr) ==
    IF tr.kind # "response"
    THEN [w |-> Release(w), ret |-> Ret(tr.kind, tr.status, JNull, <<>>)]
    ELSE LET u == Update(w, tr) IN
         IF u.raised
         THEN [w |-> Release(u.w), ret |-> Ret("ValueError", 0, JNull, <<>>)]
         ELSE IF tr.status = 202
         THEN [w |-> u.w, ret |-> Ret("ok", tr.status, tr.body, tr.link)]
         ELSE IF ~IsSuccess(tr.status)
         THEN [w |-> Release(u.w), ret |-> Ret("HTTPStatusError", tr.status, JNull, <<>>)]
         ELSE [w |-> Release(u.w), ret |-> Ret("ok", tr.status, tr.body, tr.link)]

\* GetReturn with the permit released only after a response came back: a
\* failure of the transport leaves it taken.
GetReturnLeak(w, tr) ==
    IF tr.kind # "response"
    THEN [w |-> w, ret |-> Ret(tr.kind, tr.status, JNull, <<>>)]
    ELSE LET u == Update(w, tr) IN
         IF u.raised
         THEN [w |-> Release(u.w), ret |-> Ret("ValueError", 0, JNull, <<>>)]
         ELSE IF ~IsSuccess(tr.status)
         THEN [w |-> Release(u.w), ret |-> Ret("HTTPStatusError", tr.status, JNull, <<>>)]
         ELSE [w |-> Release(u.w), ret |-> Ret("ok", tr.status, tr.body, tr.link)]

\* _get from the network's answer tr to its return: update, raise_for_status,
\* and the permit released on the way out, however the block is left.
\* [w |-> the state afterwards, ret |-> the response or the exception].
GetReturn(w, tr) ==
    IF tr.kind # "response"
    THEN [w |-> Release(w), ret |-> Ret(tr.kind, tr.status, JNull, <<>>)]
    ELSE LET u == Update(w, tr) IN
         IF u.raised
         THEN [w |-> Release(u.w), ret |-> Ret("ValueError", 0, JNull, <<>>)]
         ELSE IF ~IsSuccess(tr.status)
         THEN [w |-> Release(u.w), ret |-> Ret("HTTPStatusError", tr.status, JNull, <<>>)]
         ELSE [w |-> Release(u.w), ret |-> Ret("ok", tr.status, tr.body, tr.link)]

\* ------------------------------------------------- what the network answers
Answer(kind, status, body, link, rem, rst) ==
    [kind |-> kind, status |-> status, body |-> body, link |-> link,
     rl_remaining |-> rem, rl_reset |-> rst]

\* X-RateLimit-Remaining: absent, unparsable, at the threshold, above it.
RemainingHeaders == {HdrAbsent, HdrBad, HdrNum(Threshold), HdrNum(Threshold + 1)}

\* X-RateLimit-Reset: absent, unparsable, in the past, soon, further away than
\* the cap.
ResetHeaders == {HdrAbsent, HdrBad, HdrNum(-5), HdrNum(3), HdrNum(5000)}

LinkPart(url, rel) == [url |-> url, rel |-> rel]

\* The Link headers the server sends with page k of a chain of n pages: the
\* next link is there exactly when k < n, alone or among the other relations.
LinkHeaders(k, n) ==
    IF k < n
    THEN {<<LinkPart(k + 1, "next")>>,
          <<LinkPart(k + 1, "next"), LinkPart(n, "last")>>,
          <<LinkPart(k - 1, "prev"), LinkPart(k + 1, "next"),
            LinkPart(n, "last"), LinkPart(1, "first")>>}
    ELSE {<<>>, <<LinkPart(k - 1, "prev"), LinkPart(1, "first")>>}

\* The body of page k: two items, or a JSON object on page objPage.
PageBody(k, objPage) ==
    IF k = objPage THEN JObj(10 * k) ELSE JList(<<10 * k + 1, 10 * k + 2>>)

\* The operations that page through a list with _cached_paginate.
Paginated == {"paginate", "repos", "commits", "pulls"}

\* The bodies a 200 answer to task t's request may carry.
Bodies(w, t) ==
    LET l == w.tv[t] IN
    CASE l.op \in Paginated -> {PageBody(l.url, l.objPage)}
      [] l.op = "stats" -> {JList(<<1>>), JList(<<>>), JObj(1)}
      [] OTHER -> {JObj(1)}

Links(w, t) ==
    LET l == w.tv[t] IN
    IF l.op \in Paginated THEN LinkHeaders(l.url, l.pages) ELSE {<<>>}

\* The statuses the server answers task t's request with: 202 and 204 from
\* the statistics endpoint, 404 for an account that is no organization, 409
\* for an empty repository.
Statuses(w, t) ==
    CASE w.tv[t].op = "stats" -> {200, 202, 204, 500}
      [] w.tv[t].op = "repos" -> {200, 404, 500}
      [] w.tv[t].op = "commits" -> {200, 409, 500}
      [] OTHER -> {200, 404}

\* The statuses of the HTTPStatusErrors the transport raises by itself.
RaisedStatuses(w, t) ==
    CASE w.tv[t].op = "stats" -> {202, 500}
      [] w.tv[t].op = "repos" -> {404, 500}
      [] w.tv[t].op = "commits" -> {409, 500}
      [] OTHER -> {500}

\* The quota headers of an answer: every combination on the languages
\* endpoint; on the list and statistics endpoints none, unparsable ones, or a
\* quota at the threshold that resets soon; none or unparsable ones on the
\* repository-list, commit and pull-request endpoints.
QuotaHeaders(w, t) ==
    CASE w.tv[t].op = "languages" -> RemainingHeaders \X ResetHeaders
      [] w.tv[t].op \in {"paginate", "stats"} ->
            {<<HdrAbsent, HdrAbsent>>, <<HdrBad, HdrAbsent>>,
             <<HdrNum(Threshold), HdrNum(3)>>}
      [] OTHER -> {<<HdrAbsent, HdrAbsent>>, <<HdrBad, HdrAbsent>>}

\* Every outcome of self._client.get for task t's request: a response, a
\* transport failure (timeout, connection error), or an HTTPStatusError raised
\* by the transport itself (as the test doubles do), which skips update.
Answers(w, t) ==
    {Answer("response", 200, b, lk, q[1], q[2]) :
        b \in Bodies(w, t), lk \in Links(w, t), q \in QuotaHeaders(w, t)}
    \cup {Answer("response", st, JNull, <<>>, q[1], q[2]) :
            st \in Statuses(w, t) \ {200}, q \in QuotaHeaders(w, t)}
    \cup {Answer("TransportError", 0, JNull, <<>>, HdrAbsent, HdrAbsent)}
    \cup {Answer("HTTPStatusError", st, JNull, <<>>, HdrAbsent, HdrAbsent) :
            st \in RaisedStatuses(w, t)}

\* ------------------------------------------------------------- operations
\* The cache key of task t's operation: each task fetches its own URL.
CacheKey(t) == t

\* The cache key of /users/{org}/repos for the list_repos call of task t.
UserKey(t) == NumTasks + t

\* The key of the _cached_paginate or _cached_get_json call task t is in.
CurrentKey(w, t) == IF w.tv[t].fallback THEN UserKey(t) ELSE CacheKey(t)

\* The operation returns (ret.kind = "ok") or raises (any other kind).
Finish(w, t, ret) == [w EXCEPT !.pc[t] = "done", !.tv[t].ret = ret]

\* Lookup that never finds anything.
LookupMiss(w, t) == [w |-> w, hit |-> FALSE, value |-> JNull]

\* The cache lookup that opens every cacheable operation; a cached None is a
\* miss.  [w |-> the state afterwards, hit |-> BOOLEAN, value |-> the value].
Lookup(w, t) ==
    IF no_cache
    THEN [w |-> w, hit |-> FALSE, value |-> JNull]
    ELSE LET g == CacheGet(w, CurrentKey(w, t)) IN
         [w |-> g.w, hit |-> g.value.t # "null", value |-> g.value]

\* if self._cache is not None: self._cache.set(url, params, value)
Store(w, t, value, written) ==
    IF no_cache
    THEN w
    ELSE [CacheSet(w, CurrentKey(w, t), value, written)
             EXCEPT !.tv[t].oserror = ~written]

\* _cached_get_json (get_languages), to its first suspension.
StartCachedGetJson(w, t) ==
    LET g == Lookup(w, t) IN
    IF g.hit
    THEN Finish([g.w EXCEPT !.tv[t].hit = TRUE], t, Ret("ok", 0, g.value, <<>>))
    ELSE Get(g.w, t)

\* _cached_get_json after _get has returned or raised.
ContinueCachedGetJson(w, t, ret, written) ==
    IF ret.kind # "ok"
    THEN Finish(w, t, ret)
    ELSE Finish(Store(w, t, ret.body, written), t, ret)

\* The target of the first part of the Link header tagged rel="next".
RECURSIVE NextLink(_)
NextLink(link) ==
    IF link = <<>> THEN None
    ELSE IF Head(link).rel = "next" THEN Some(Head(link).url)
    ELSE NextLink(Tail(link))

\* Accumulate with each page put in front of the earlier ones.
AccumulateInFront(results, body) ==
    IF body.t = "list"
    THEN body.items \o results
    ELSE <<body.items[1]>> \o results

\* results.extend(data) for a list, results.append(data) for anything else.
Accumulate(results, body) ==
    IF body.t = "list"
    THEN results \o body.items
    ELSE Append(results, body.items[1])

\* _cached_paginate and _paginate, to the first suspension.
StartCachedPaginate(w, t) ==
    LET g == Lookup(w, t) IN
    IF g.hit
    THEN Finish([g.w EXCEPT !.tv[t].hit = TRUE], t, Ret("ok", 0, g.value, <<>>))
    ELSE Get([g.w EXCEPT !.tv[t].results = <<>>, !.tv[t].url = 1], t)

\* One turn of the while loop of _paginate after _get has returned or raised,
\* up to the next request or to the return of _cached_paginate.
ContinuePaginate(w, t, ret, written) ==
    IF ret.kind # "ok"
    THEN Finish(w, t, ret)
    ELSE LET results == Accumulate(w.tv[t].results, ret.body)
             next_url == NextLink(ret.link)
             w1 == [w EXCEPT !.tv[t].results = results]
         IN  IF next_url.known
             THEN Get([w1 EXCEPT !.tv[t].url = next_url.v], t)
             ELSE Finish(Store(w1, t, JList(results), written), t,
                         Ret("ok", ret.status, JList(results), <<>>))

\* repo_type = "all" if include_forks else "sources"
RepoType(include_forks) == IF include_forks THEN "all" ELSE "sources"

\* One call of _cached_paginate made by list_repos, to its first suspension.
ListReposCall(w, t, endpoint) ==
    StartCachedPaginate(
        [w EXCEPT !.tv[t].calls =
            Append(@, [endpoint |-> endpoint,
                       type |-> RepoType(w.tv[t].include_forks)])], t)

\* list_repos to its first suspension: the organization endpoint.
StartListRepos(w, t) == ListReposCall(w, t, "orgs")

\* FallBack for every status.
FallBackAnyStatus(exc) == TRUE

\* if exc.response.status_code == 404
FallBack(exc) == exc.status = 404

\* list_repos after _get has returned or raised: an HTTPStatusError of the
\* organization endpoint is caught, and on a 404 the user-account endpoint is
\* paged through instead; inside the except clause nothing is caught.
ContinueListRepos(w0, t, ret, written) ==
    LET w == [w0 EXCEPT !.tv[t].last = ret] IN
    IF ret.kind = "HTTPStatusError" /\ ~w.tv[t].fallback
    THEN LET w1 == [w EXCEPT !.tv[t].caught = ret] IN
         IF FallBack(ret)
         THEN ListReposCall([w1 EXCEPT !.tv[t].fallback = TRUE], t, "users")
         ELSE Finish(w1, t, ret)
    ELSE ContinuePaginate(w, t, ret, written)

\* list_commits to its first suspension.
StartListCommits(w, t) == StartCachedPaginate(w, t)

\* EmptyRepository for every status.
EmptyRepositoryAnyStatus(exc) == TRUE

\* if exc.response.status_code == 409
EmptyRepository(exc) == exc.status = 409

\* list_commits after _get has returned or raised: an HTTPStatusError with
\* status 409 becomes the result [].
ContinueListCommits(w0, t, ret, written) ==
    LET w == [w0 EXCEPT !.tv[t].last = ret] IN
    IF ret.kind = "HTTPStatusError"
    THEN IF EmptyRepository(ret)
         THEN Finish(w, t, Ret("ok", 0, JList(<<>>), <<>>))
         ELSE Finish(w, t, ret)
    ELSE ContinuePaginate(w, t, ret, written)

\* if since and created < since: continue
\* if until and created > until: continue
\* The decimal digits, and the ISO 8601 text of the time n minutes into the
\* hour the pull requests were created in (n < 100).
Digits == <<"0", "1", "2", "3", "4", "5", "6", "7", "8", "9">>
IsoText(n) ==
    "2024-06-01T00:" \o Digits[(n \div 10) + 1] \o Digits[(n % 10) + 1] \o ":00Z"

\* The since or until argument as the caller gives it: None or a text.
TextOf(bound) == IF bound.known THEN Some(IsoText(bound.v)) ELSE None

\* The characters of an ISO 8601 UTC text in the order of their code points.
CodeOrder == "-0123456789:TZ"
CodeOf(ch) == CHOOSE i \in 1..Len(CodeOrder) : SubSeq(CodeOrder, i, i) = ch

\* a < b on str: the first differing character decides, a proper prefix is
\* the smaller.
RECURSIVE StrLess(_, _)
StrLess(a, b) ==
    IF Len(b) = 0 THEN FALSE
    ELSE IF Len(a) = 0 THEN TRUE
    ELSE LET x == CodeOf(SubSeq(a, 1, 1))
             y == CodeOf(SubSeq(b, 1, 1))
         IN  IF x # y
             THEN x < y
             ELSE StrLess(SubSeq(a, 2, Len(a)), SubSeq(b, 2, Len(b)))

\* A window test that has no upper end.
InWindowSinceOnly(created, since, until) ==
    ~(since.known /\ StrLess(created, since.v))

\* The two `continue` of the filter: created < since, created > until, on
\* the texts.
InWindow(created, since, until) ==
    /\ ~(since.known /\ StrLess(created, since.v))
    /\ ~(until.known /\ StrLess(until.v, created))

\* The client-side filter of list_pull_requests on created_at; an item is
\* the minute of its creation, its created_at the text of it.
Window(results, since, until) ==
    IF since.known \/ until.known
    THEN SelectSeq(results, LAMBDA pr : InWindow(IsoText(pr), since, until))
    ELSE results

\* list_pull_requests from the return of _cached_paginate to its own.
FilterPulls(w, t) ==
    LET l == w.tv[t] IN
    IF w.pc[t] = "done" /\ l.ret.kind = "ok"
    THEN [w EXCEPT !.tv[t].ret.body =
             JList(Window(l.ret.body.items, TextOf(l.since), TextOf(l.until)))]
    ELSE w

\* list_pull_requests to its first suspension.
StartListPullRequests(w, t) == FilterPulls(StartCachedPaginate(w, t), t)

\* list_pull_requests after _get has returned or raised.
ContinueListPullRequests(w0, t, ret, written) ==
    LET w == [w0 EXCEPT !.tv[t].last = ret] IN
    FilterPulls(ContinuePaginate(w, t, ret, written), t)

RECURSIVE Pow2(_)
Pow2(n) == IF n = 0 THEN 1 ELSE 2 * Pow2(n - 1)

\* Backoff without the cap.
BackoffUncapped(attempt) == Pow2(attempt + 1)

\* delay = min(2 ** (attempt + 1), 30)
Backoff(attempt) == Min(Pow2(attempt + 1), MaxBackoff)

\* StatsAttempt with one attempt too many (range(retries + 1)).
StatsAttemptOneMore(w, t) ==
    IF w.tv[t].attempt <= w.tv[t].retries
    THEN Get([w EXCEPT !.tv[t].last = NoRet], t)
    ELSE Finish(w, t, Ret("ok", 0, JList(<<>>), <<>>))

\* The top of the for loop of get_contributor_stats: the next attempt, or the
\* final return [] when range(retries) is exhausted.
StatsAttempt(w, t) ==
    IF w.tv[t].attempt < w.tv[t].retries
    THEN Get([w EXCEPT !.tv[t].last = NoRet], t)
    ELSE Finish(w, t, Ret("ok", 0, JList(<<>>), <<>>))

\* get_contributor_stats to its first suspension.
StartContributorStats(w0, t) ==
    LET w == [w0 EXCEPT !.tv[t].before = w0.cache[CacheKey(t)]]
        g == Lookup(w, t)
    IN
    IF g.hit
    THEN Finish([g.w EXCEPT !.tv[t].hit = TRUE], t, Ret("ok", 0, g.value, <<>>))
    ELSE StatsAttempt([g.w EXCEPT !.tv[t].attempt = 0], t)

\* await asyncio.sleep(delay); continue
StatsSleep(w, t) ==
    LET delay == Backoff(w.tv[t].attempt) IN
    [w EXCEPT !.pc[t] = "backoff", !.wake[t] = now + delay, !.tv[t].delay = delay,
              !.tv[t].slept = Append(@, delay)]

\* RetryRaised with the last attempt retried as well.
RetryRaisedAlways(l, ret) ==
    /\ ret.kind = "HTTPStatusError"
    /\ ret.status = 202
    /\ l.attempt < l.retries

\* The except clause of the for loop: a raised 202 is retried, but not on the
\* last attempt.
RetryRaised(l, ret) ==
    /\ ret.kind = "HTTPStatusError"
    /\ ret.status = 202
    /\ l.attempt < l.retries - 1

\* ShouldCache with the emptiness test dropped.
ShouldCacheAlways(result) == TRUE

\* if self._cache is not None and result: only a non-empty result is cached.
ShouldCache(result) == result.items # <<>>

\* The body of the for loop after _get has returned or raised.
ContinueContributorStats(w0, t, ret, written) ==
    LET w == [w0 EXCEPT !.tv[t].last = ret]
        l == w.tv[t]
    IN
    IF ret.kind # "ok"
    THEN IF RetryRaised(l, ret)
         THEN StatsSleep(w, t)
         ELSE Finish(w, t, ret)
    ELSE IF ret.status = 204
    THEN Finish(w, t, Ret("ok", 204, JList(<<>>), <<>>))
    ELSE IF ret.status = 202
    THEN IF l.attempt < l.retries - 1
         THEN StatsSleep(w, t)
         ELSE Finish(w, t, Ret("ok", 202, JList(<<>>), <<>>))
    ELSE LET result == IF ret.body.t = "list" THEN ret.body ELSE JList(<<>>)
             w1 == IF ShouldCache(result) THEN Store(w, t, result, written) ELSE w
         IN  Finish(w1, t, Ret("ok", ret.status, result, <<>>))

\* The operation of task t from its call to its first suspension.
StartOp(w0, t) ==
    LET w == [w0 EXCEPT !.tv[t].before = w0.cache[CacheKey(t)]] IN
    CASE w.tv[t].op = "stats" -> StartContributorStats(w, t)
      [] w.tv[t].op = "paginate" -> StartCachedPaginate(w, t)
      [] w.tv[t].op = "repos" -> StartListRepos(w, t)
      [] w.tv[t].op = "commits" -> StartListCommits(w, t)
      [] w.tv[t].op = "pulls" -> StartListPullRequests(w, t)
      [] OTHER -> StartCachedGetJson(w, t)

\* The caller of _get from _get's return to the next suspension.
ContinueOp(w, t, ret, written) ==
    CASE w.tv[t].op = "stats" -> ContinueContributorStats(w, t, ret, written)
      [] w.tv[t].op = "paginate" -> ContinuePaginate(w, t, ret, written)
      [] w.tv[t].op = "repos" -> ContinueListRepos(w, t, ret, written)
      [] w.tv[t].op = "commits" -> ContinueListCommits(w, t, ret, written)
      [] w.tv[t].op = "pulls" -> ContinueListPullRequests(w, t, ret, written)
      [] OTHER -> ContinueCachedGetJson(w, t, ret, written)

\* A sleeping task resumes: after wait_if_needed the request leaves, after
\* a backoff the for loop takes its next turn.
ResumeOp(w, t) ==
    IF w.pc[t] = "rate_wait"
    THEN Issue(w, t)
    ELSE StatsAttempt([w EXCEPT !.wake[t] = 0, !.tv[t].attempt = @ + 1], t)

\* ---------------------------------------------------------------- actions
\* The collector creates the task and the event loop first runs it.
Start(t) ==
    /\ pc[t] = "idle"
    /\ SetWorld(StartOp(World, t))
    /\ UNCHANGED <<now, no_cache, aggregator_vars>>

\* A task that was handed a permit runs on inside _get.
Granted(t) ==
    /\ pc[t] = "granted"
    /\ SetWorld(WaitIfNeeded(AcquireResume(World), t))
    /\ UNCHANGED <<now, no_cache, aggregator_vars>>

\* The timer of asyncio.sleep has fired.
Wake(t) ==
    /\ pc[t] \in {"rate_wait", "backoff"}
    /\ now >= wake[t]
    /\ SetWorld(ResumeOp(World, t))
    /\ UNCHANGED <<now, no_cache, aggregator_vars>>

\* The network answers the request of task t, which runs to its next
\* suspension.
Respond(t) ==
    /\ pc[t] = "in_flight"
    /\ \E tr \in Answers(World, t), written \in BOOLEAN :
          LET g == GetReturn(World, tr) IN
          SetWorld(ContinueOp(g.w, t, g.ret, written))
    /\ UNCHANGED <<now, no_cache, aggregator_vars>>

Sleeping == {t \in Tasks : pc[t] \in {"rate_wait", "backoff"} /\ wake[t] > now}

\* A second passes.
Tick ==
    /\ now < MaxNow
    /\ now' = now + 1
    /\ UNCHANGED <<sem, waiters, remaining, reset_at, no_cache, cache, pc, wake, tv>>
    /\ UNCHANGED aggregator_vars

\* Nothing happens until the next timer is due.
TimerJump ==
    /\ Sleeping # {}
    /\ now' = CHOOSE x \in {wake[t] : t \in Sleeping} :
                  \A u \in Sleeping : x <= wake[u]
    /\ UNCHANGED <<sem, waiters, remaining, reset_at, no_cache, cache, pc, wake, tv>>
    /\ UNCHANGED aggregator_vars

Next ==
    \/ \E t \in Tasks : Start(t)
    \/ \E t \in Tasks : Granted(t)
    \/ \E t \in Tasks : Wake(t)
    \/ \E t \in Tasks : Respond(t)
    \/ Tick
    \/ TimerJump

\* ------------------------------------------------------------------- Init
Locals(op, pages, objPage, retries) ==
    [op |-> op, url |-> 0, pages |-> pages, objPage |-> objPage,
     attempt |-> 0, retries |-> retries, delay |-> 0, results |-> <<>>,
     ret |-> NoRet,
     include_forks |-> FALSE,  \* list_repos(include_forks=...)
     fallback |-> FALSE,       \* list_repos is inside its except clause
     since |-> None,           \* list_pull_requests(since=..., until=...)
     until |-> None,
     \* what the properties below need to remember:
     reqs |-> 0,          \* requests issued so far
     hit |-> FALSE,       \* the cache answered
     last |-> NoRet,      \* what _get gave the retry loop in its current turn
     before |-> NoEntry,  \* the cache entry of the key when the call began
     chk_at |-> 0,        \* while asleep in wait_if_needed: the time and the
     chk_rst |-> 0,       \*   reset timestamp its check read
     oserror |-> FALSE,   \* FileCache.set could not write the file
     caught |-> NoRet,    \* the HTTPStatusError list_repos has caught
     slept |-> <<>>,      \* the delays of the backoff sleeps taken so far
     calls |-> <<>>]      \* the _cached_paginate calls list_repos has made

\* No aggregate_org_report call is under way: the fetch operations of the
\* client are run on their own.
NoAggregate ==
    /\ args = <<>>
    /\ server = <<>>
    /\ phase = "none"
    /\ listed = 0
    /\ repos = <<>>
    /\ collected = <<>>
    /\ fetching = <<>>
    /\ failed_repos = <<>>
    /\ report = NoRet

\* A fresh client: all permits free, nothing known about the quota.
InitClient ==
    /\ now = 0
    /\ sem = Concurrency
    /\ waiters = <<>>
    /\ remaining = None
    /\ reset_at = None
    /\ wake = [t \in Tasks |-> 0]
    /\ NoAggregate

\* One repository's languages fetched by every task (get_languages), each for
\* a repository of its own.
Init ==
    /\ InitClient
    /\ no_cache \in BOOLEAN
    /\ cache = [k \in Keys |-> NoEntry]
    /\ pc = [t \in Tasks |-> "idle"]
    /\ tv = [t \in Tasks |-> Locals("languages", 0, 0, 0)]

Spec == Init /\ [][Next]_vars

\* A fresh cache directory, or one that earlier runs have left entries in:
\* per key nothing, a value written just now, or one written over an hour ago.
OldEntries(value) ==
    {NoEntry,
     [present |-> TRUE, ts |-> 0, value |-> value],
     [present |-> TRUE, ts |-> 0 - DEFAULT_TTL - 1, value |-> value]}

\* The tasks that run in the specifications of one operation; the others
\* have returned before the run starts.
Idle(t) == IF t <= 2 THEN "idle" ELSE "done"

\* Task 1 pages through a list (_cached_paginate) of 1..MaxPages pages, one of
\* which may hold a JSON object instead of a list; task 2 fetches a one-page
\* list and competes for the permits.
InitPaginate ==
    /\ InitClient
    /\ no_cache \in BOOLEAN
    /\ cache \in [Keys -> OldEntries(JList(<<7>>))]
    /\ \A k \in Keys : k # 1 => cache[k] = NoEntry
    /\ pc = [t \in Tasks |-> Idle(t)]
    /\ \E n \in 1..MaxPages : \E o \in 0..n :
          tv = [t \in Tasks |->
                  IF t = 1 THEN Locals("paginate", n, o, 0)
                  ELSE Locals("paginate", 1, 0, 0)]

SpecPaginate == InitPaginate /\ [][Next]_vars

\* Task 1 fetches contributor statistics with retries in 0..MaxRetries; task 2
\* does so with a single attempt and competes for the permits.
InitStats ==
    /\ InitClient
    /\ no_cache \in BOOLEAN
    /\ cache \in [Keys -> OldEntries(JList(<<7>>))]
    /\ \A k \in Keys : k # 1 => cache[k] = NoEntry
    /\ pc = [t \in Tasks |-> Idle(t)]
    /\ \E r \in 0..MaxRetries :
          tv = [t \in Tasks |->
                  IF t = 1 THEN Locals("stats", 0, 0, r)
                  ELSE Locals("stats", 0, 0, 1)]

SpecStats == InitStats /\ [][Next]_vars

\* Task 1 fetches contributor statistics with the default number of retries,
\* or two fewer; task 2 does so with a single attempt and competes for the
\* permits.
InitBackoff ==
    /\ InitClient
    /\ no_cache = TRUE
    /\ cache = [k \in Keys |-> NoEntry]
    /\ pc = [t \in Tasks |-> Idle(t)]
    /\ \E r \in {DefaultRetries - 2, DefaultRetries} :
          tv = [t \in Tasks |->
                  IF t = 1 THEN Locals("stats", 0, 0, r)
                  ELSE Locals("stats", 0, 0, 1)]

SpecBackoff == InitBackoff /\ [][Next]_vars

\* The since and until arguments of list_pull_requests: none, or a time
\* between the creation times of the items the server and the cache hold.
Bounds == {None, Some(12), Some(22)}

\* The calls a run makes of the operations that go through the cache, with
\* their arguments: list_repos, list_commits, list_pull_requests over a chain
\* of 1..MaxPages pages, get_languages, get_contributor_stats.
Calls ==
    {[Locals("repos", n, 0, 0) EXCEPT !.include_forks = f] :
        n \in 1..MaxPages, f \in BOOLEAN}
    \cup {Locals("commits", n, 0, 0) : n \in 1..MaxPages}
    \cup {[Locals("pulls", n, 0, 0) EXCEPT !.since = s, !.until = u] :
            n \in 1..MaxPages, s \in Bounds, u \in Bounds}
    \cup {Locals("languages", 0, 0, 0), Locals("stats", 0, 0, 2)}

\* What earlier runs have left in the cache for a call: a list for the
\* operations that return one, a mapping for get_languages.
Cached(op) == IF op = "languages" THEN JObj(7) ELSE JList(<<7, 12, 25>>)

\* Task 1 makes one of the calls, with the cache as earlier runs have left it
\* under the call's key (and, for list_repos, under the key of the user-account
\* endpoint); task 2 lists the commits of a one-page repository and competes
\* for the permits.
InitOps ==
    /\ InitClient
    /\ no_cache \in BOOLEAN
    /\ pc = [t \in Tasks |-> Idle(t)]
    /\ \E c \in Calls :
          /\ tv = [t \in Tasks |-> IF t = 1 THEN c ELSE Locals("commits", 1, 0, 0)]
          /\ cache \in [Keys -> OldEntries(Cached(c.op))]
          /\ \A k \in Keys :
                \/ cache[k] = NoEntry
                \/ ~no_cache /\ k = CacheKey(1)
                \/ ~no_cache /\ k = UserKey(1) /\ c.op = "repos"

SpecOps == InitOps /\ [][Next]_vars
\* ============================================================ aggregator
\* ------------------------------------------------------- bounds (aggregator)
MaxRepos == 2          \* most repositories the platform lists for the account
MaxShared == 3         \* most repositories one contributor has worked in

\* --------------------------------------------------------------- payloads
\* The repositories of the account, by name.
AllNames == <<"r1", "r2", "r3", "r4">>
RepoNames == {AllNames[i] : i \in 1..MaxRepos}

\* An element of a JSON list that is no object (null, a number, a string):
\* calling .get on it raises AttributeError.
NotADict == [dict |-> FALSE]

\* A commit: the message and the author date of its "commit" object; the
\* message is "" when there is none.
CommitItem(message, date) == [dict |-> TRUE, message |-> message, date |-> date]

\* A time given as text (a timestamp field of a pull request, the since and
\* until of a call): null, an ISO 8601 text (held as its time in seconds
\* since the epoch), or a text datetime.fromisoformat rejects.
NoTime == [set |-> FALSE, iso |-> FALSE, v |-> 0]
At(seconds) == [set |-> TRUE, iso |-> TRUE, v |-> seconds]
BadTime == [set |-> TRUE, iso |-> FALSE, v |-> 0]

\* n hours, in seconds
Hours(n) == 3600 * n

\* A pull request; login is "" when it has no user.
PullItem(login, created_at, merged_at, closed_at, state, draft) ==
    [dict |-> TRUE, login |-> login, created_at |-> created_at,
     merged_at |-> merged_at, closed_at |-> closed_at, state |-> state,
     draft |-> draft]
\* An issue: the login of its user ("" without one) and the names of its
\* labels ("" for a label without a name).
IssueItem(login, labels) == [dict |-> TRUE, login |-> login, labels |-> labels]
Week(w, a, d, c) == [w |-> w, a |-> a, d |-> d, c |-> c]

\* One element of the contributor statistics; author is "" for a null author.
ContributorItem(author, weeks) == [dict |-> TRUE, author |-> author, weeks |-> weeks]

\* A repository of the list_repos payload; in single-repository mode the
\* dict holds the name alone.
RepoDict(name, stars, forks, archived) ==
    [name |-> name, has_meta |-> TRUE, stargazers_count |-> stars,
     forks_count |-> forks, archived |-> archived]
NameOnly(name) ==
    [name |-> name, has_meta |-> FALSE, stargazers_count |-> 0,
     forks_count |-> 0, archived |-> FALSE]

\* meta.get(key, default)
MetaGet(meta, key, default) == IF meta.has_meta THEN meta[key] ELSE default

\* The exception a fetch ends with: its _get raised it.
Failure(kind, status) == Ret(kind, status, JNull, <<>>)
Failures == {Failure("HTTPStatusError", 500), Failure("TransportError", 0)}

\* ------------------------------------------------------ _collect_repo_stats
RECURSIVE SumOf(_)
SumOf(s) == IF s = <<>> THEN 0 ELSE Head(s) + SumOf(Tail(s))

\* Total that takes the first element alone.
TotalOfFirst(s, key) == IF s = <<>> THEN 0 ELSE s[1][key]

\* sum(x[key] for x in s)
Total(s, key) == SumOf([i \in 1..Len(s) |-> s[i][key]])

\* The index in the sorted list of the element at index i of s:
\* list.sort(key=..., reverse=True) is stable, equal keys keep their order.
\* keys[j] is the sort key of s[j].
RankDesc(keys, i) ==
    1 + Cardinality({j \in 1..Len(keys) :
                        \/ keys[j] > keys[i]
                        \/ keys[j] = keys[i] /\ j < i})

\* sorted(s, key=..., reverse=True), keys[j] the key of s[j]
SortedDesc(s, keys) ==
    IF s = <<>>
    THEN <<>>
    ELSE [p \in 1..Len(s) |-> s[CHOOSE i \in 1..Len(s) : RankDesc(keys, i) = p]]

\* key=lambda x: x.<field>, taken for each element of s
FieldKeys(s, field) == [i \in 1..Len(s) |-> s[i][field]]

\* for r in repo_stats_list: for x in r[key]: the elements in loop order.
RECURSIVE Chain(_, _)
Chain(repo_stats_list, key) ==
    IF repo_stats_list = <<>>
    THEN <<>>
    ELSE Head(repo_stats_list)[key] \o Chain(Tail(repo_stats_list), key)

\* asyncio.gather with return_exceptions left at its default: the first
\* exception is raised to the caller.
GatherRaising(outcomes) ==
    [raised |-> \E i \in 1..Len(outcomes) : outcomes[i].kind # "ok",
     results |-> outcomes]

\* asyncio.gather(..., return_exceptions=True): the exception of a fetch is
\* its result.
Gather(outcomes) == [raised |-> FALSE, results |-> outcomes]

\* if isinstance(x, Exception): x = []
OrEmptyList(result) == IF result.kind # "ok" THEN JList(<<>>) ELSE result.body

\* if isinstance(lang_bytes, Exception): lang_bytes = {}
OrEmptyDict(result) == IF result.kind # "ok" THEN JObj(<<>>) ELSE result.body

\* isinstance(x, list), and the list (empty when x is none)
IsList(x) == x.t = "list"
ItemsOf(x) == IF IsList(x) THEN x.items ELSE <<>>

\* Every element is an object, so that .get does not raise.
AllDicts(items) == \A i \in 1..Len(items) : items[i].dict

\* The PR counters: merged_at set counts as merged, else state "open" as open.
MergedPrs(prs) == Cardinality({i \in 1..Len(prs) : prs[i].merged_at.set})

\* An open counter that takes every pull request in state "open".
OpenPrsMergedOrNot(prs) == Cardinality({i \in 1..Len(prs) : prs[i].state = "open"})

OpenPrs(prs) ==
    Cardinality({i \in 1..Len(prs) : ~prs[i].merged_at.set /\ prs[i].state = "open"})

\* num / den rounded to the nearest integer, a tie to the even one
\* (num >= 0, den > 0).
RoundDiv(num, den) ==
    LET q == num \div den
        r == num % den
    IN  IF 2 * r < den THEN q
        ELSE IF 2 * r > den THEN q + 1
        ELSE IF q % 2 = 0 THEN q ELSE q + 1

\* round(num / den, 1), in tenths.  A float with one decimal is held as its
\* number of tenths; round() takes a tie to the even digit.
Round1(num, den) == RoundDiv(10 * num, den)

\* Percentage over the language's own bytes.
PercentageOfOwn(b, total_bytes) == IF b # 0 THEN Round1(b * 100, b) ELSE 0

\* round(b / total_bytes * 100, 1) if total_bytes else 0, in tenths
Percentage(b, total_bytes) ==
    IF total_bytes # 0 THEN Round1(b * 100, total_bytes) ELSE 0

\* [LanguageStats(lang, b, percentage) for lang, b in sorted(items, by b, reverse)]
LanguageStatsOf(items) ==
    LET total_bytes == Total(items, "bytes")
        sorted == SortedDesc(items, FieldKeys(items, "bytes"))
    IN  [i \in 1..Len(sorted) |->
            [language |-> sorted[i].language, bytes |-> sorted[i].bytes,
             percentage |-> Percentage(sorted[i].bytes, total_bytes)]]

\* The languages list: the mapping's entries by bytes, largest first; none
\* when lang_bytes is no dict or is empty.
LanguagesOf(lang_bytes) ==
    IF lang_bytes.t = "obj"
    THEN LanguageStatsOf(lang_bytes.items[1])
    ELSE <<>>

\* InWeekWindow that keeps the week whose seven days end exactly at since.
InWeekWindowStrict(week_start, since_ts, until_ts) ==
    /\ ~(since_ts.known /\ week_start + 7 * 86400 < since_ts.v)
    /\ ~(until_ts.known /\ week_start > until_ts.v)

\* A week is left out if its seven days end at or before since, or if it
\* starts after until.
InWeekWindow(week_start, since_ts, until_ts) ==
    /\ ~(since_ts.known /\ week_start + 7 * 86400 <= since_ts.v)
    /\ ~(until_ts.known /\ week_start > until_ts.v)

\* The ContributorStats of one element of the statistics over the weeks of
\* the window.
ContributorOf(c, since_ts, until_ts) ==
    LET filtered_weeks ==
            SelectSeq(c.weeks, LAMBDA wk : InWeekWindow(wk.w, since_ts, until_ts))
    IN  [username |-> c.author,
         commits |-> Total(filtered_weeks, "c"),
         additions |-> Total(filtered_weeks, "a"),
         deletions |-> Total(filtered_weeks, "d")]

\* Skipped that passes a contributor with nothing in the window.
SkippedWithoutAuthor(c, stats) == c.author = ""

\* The two `continue` of the contributors loop: no author, or no commit,
\* addition or deletion in the weeks of the window.
Skipped(c, stats) ==
    \/ c.author = ""
    \/ stats.commits = 0 /\ stats.additions = 0 /\ stats.deletions = 0

\* The contributors loop: elements without an author and contributors with
\* nothing in the window are skipped.
RECURSIVE ContributorsLoop(_, _, _)
ContributorsLoop(raw_contributors, since_ts, until_ts) ==
    IF raw_contributors = <<>>
    THEN <<>>
    ELSE LET c == Head(raw_contributors)
             stats == ContributorOf(c, since_ts, until_ts)
             rest == ContributorsLoop(Tail(raw_contributors), since_ts, until_ts)
         IN  IF Skipped(c, stats)
             THEN rest
             ELSE <<stats>> \o rest

\* contributors.sort(key=lambda x: x.commits, reverse=True)
ContributorsOf(raw_contributors, since_ts, until_ts) ==
    LET contributors == ContributorsLoop(raw_contributors, since_ts, until_ts)
    IN  SortedDesc(contributors, FieldKeys(contributors, "commits"))

\* min(s) and max(s) of a non-empty list of numbers
MinOf(s) == CHOOSE x \in {s[i] : i \in 1..Len(s)} : \A i \in 1..Len(s) : x <= s[i]
MaxOf(s) == CHOOSE x \in {s[i] : i \in 1..Len(s)} : \A i \in 1..Len(s) : x >= s[i]

\* datetime.fromtimestamp(ts, tz=utc).strftime("%Y-%m-%d"): the UTC day of a
\* timestamp.  A date text is held as its day number since the epoch; the
\* texts compare as the day numbers do, and strptime gives the day back.
DateOf(ts) == ts \div 86400

\* The timestamps of the weeks of the window with a commit, an addition or a
\* deletion.
ActiveWeekTimestamps(weeks, since_ts, until_ts) ==
    LET active == SelectSeq(weeks,
                            LAMBDA wk : /\ InWeekWindow(wk.w, since_ts, until_ts)
                                        /\ (wk.c > 0 \/ wk.a > 0 \/ wk.d > 0))
    IN  [i \in 1..Len(active) |-> active[i].w]

\* The ContributorTrend of one element of the statistics that has an active
\* week.
TrendOf(login, active_week_timestamps) ==
    LET first_ts == MinOf(active_week_timestamps)
        last_ts == MaxOf(active_week_timestamps)
    IN  [username |-> login,
         first_active_week |-> DateOf(first_ts),
         last_active_week |-> DateOf(last_ts),
         active_weeks |-> Len(active_week_timestamps),
         total_weeks |-> Max(1, (last_ts - first_ts) \div (7 * 86400) + 1)]

\* The loop of _analyze_contributor_trends: elements without an author or
\* without an active week are skipped.
RECURSIVE TrendsLoop(_, _, _)
TrendsLoop(raw_contributors, since_ts, until_ts) ==
    IF raw_contributors = <<>>
    THEN <<>>
    ELSE LET c == Head(raw_contributors)
             active == ActiveWeekTimestamps(c.weeks, since_ts, until_ts)
             rest == TrendsLoop(Tail(raw_contributors), since_ts, until_ts)
         IN  IF c.author = "" \/ active = <<>>
             THEN rest
             ELSE <<TrendOf(c.author, active)>> \o rest

\* _analyze_contributor_trends
AnalyzeContributorTrends(raw_contributors, since_ts, until_ts) ==
    LET trends == TrendsLoop(raw_contributors, since_ts, until_ts)
    IN  SortedDesc(trends, FieldKeys(trends, "active_weeks"))

\* sorted(s), for numbers
Sorted(s) ==
    LET rank(i) == 1 + Cardinality({j \in 1..Len(s) :
                                       s[j] < s[i] \/ (s[j] = s[i] /\ j < i)})
    IN  [p \in 1..Len(s) |-> s[CHOOSE i \in 1..Len(s) : rank(i) = p]]

\* s[:n]
FirstN(s, n) == SubSeq(s, 1, Min(n, Len(s)))

\* counts[name] = counts.get(name, 0) + cnt, on a dict kept as the list of
\* its items in insertion order
Tally(counts, name, cnt) ==
    IF \E i \in 1..Len(counts) : counts[i].name = name
    THEN LET i == CHOOSE i \in 1..Len(counts) : counts[i].name = name
         IN  [counts EXCEPT ![i].count = @ + cnt]
    ELSE Append(counts, [name |-> name, count |-> cnt])

RECURSIVE TallyAll(_, _)
TallyAll(counts, items) ==
    IF items = <<>>
    THEN counts
    ELSE TallyAll(Tally(counts, Head(items).name, Head(items).count), Tail(items))

\* sorted(counts.items(), key=lambda x: x[1], reverse=True)[:10]
TopTen(counts) == FirstN(SortedDesc(counts, FieldKeys(counts, "count")), 10)

\* The pull requests whose created_at is set and parses: the others are left
\* by `continue` before any latency is taken.
Created(prs) ==
    SelectSeq(prs, LAMBDA pr : pr.created_at.set /\ pr.created_at.iso)

\* merge_hours: merged_at minus created_at of the pull requests merged at or
\* after their creation.  The latencies are held in seconds, an hour is 3600.
MergeHours(prs) ==
    LET merged == SelectSeq(Created(prs),
                            LAMBDA pr : /\ pr.merged_at.set /\ pr.merged_at.iso
                                        /\ pr.merged_at.v - pr.created_at.v >= 0)
    IN  [i \in 1..Len(merged) |-> merged[i].merged_at.v - merged[i].created_at.v]

\* close_hours: closed_at minus created_at of the closed pull requests
\* without merged_at, in seconds.
CloseHours(prs) ==
    LET closed == SelectSeq(Created(prs),
                            LAMBDA pr : /\ pr.closed_at.set /\ ~pr.merged_at.set
                                        /\ pr.closed_at.iso
                                        /\ pr.closed_at.v - pr.created_at.v >= 0)
    IN  [i \in 1..Len(closed) |-> closed[i].closed_at.v - closed[i].created_at.v]

\* round(sum(hours) / len(hours), 1) if hours else None, in tenths of an hour
Average(hours) ==
    IF hours # <<>> THEN Some(Round1(SumOf(hours), 3600 * Len(hours))) ELSE None

\* A median that takes the upper of the two middle samples of an even count.
MedianUpperMiddle(hours) ==
    IF hours = <<>>
    THEN None
    ELSE Some(Round1(Sorted(hours)[Len(hours) \div 2 + 1], 3600))

\* The median of merge_hours rounded to one decimal, in tenths of an hour;
\* None without a sample.
Median(hours) ==
    IF hours = <<>>
    THEN None
    ELSE LET sorted_h == Sorted(hours)
             mid == Len(sorted_h) \div 2
         IN  Some(IF Len(sorted_h) % 2 = 0
                  THEN Round1(sorted_h[mid + 1] + sorted_h[mid], 2 * 3600)
                  ELSE Round1(sorted_h[mid + 1], 3600))

\* pr_insights = None
NoPrInsights ==
    [known |-> FALSE, total_analyzed |-> 0, avg_merge_hours |-> None,
     median_merge_hours |-> None, avg_close_hours |-> None, draft_count |-> 0,
     top_authors |-> <<>>]

\* _analyze_pr_insights
AnalyzePrInsights(prs) ==
    LET logins == SelectSeq(prs, LAMBDA pr : pr.login # "")
        author_counts ==
            TallyAll(<<>>, [i \in 1..Len(logins) |->
                               [name |-> logins[i].login, count |-> 1]])
    IN  [known |-> TRUE,
         total_analyzed |-> Len(prs),
         avg_merge_hours |-> Average(MergeHours(prs)),
         median_merge_hours |-> Median(MergeHours(prs)),
         avg_close_hours |-> Average(CloseHours(prs)),
         draft_count |-> Cardinality({i \in 1..Len(prs) : prs[i].draft}),
         top_authors |-> TopTen(author_counts)]

\* The letters str.lower changes in a GitHub login, and what it makes of them.
Uppercase ==
    <<"A", "B", "C", "D", "E", "F", "G", "H", "I", "J", "K", "L", "M",
      "N", "O", "P", "Q", "R", "S", "T", "U", "V", "W", "X", "Y", "Z">>
Lowercase ==
    <<"a", "b", "c", "d", "e", "f", "g", "h", "i", "j", "k", "l", "m",
      "n", "o", "p", "q", "r", "s", "t", "u", "v", "w", "x", "y", "z">>

LowerChar(ch) ==
    IF \E i \in 1..Len(Uppercase) : Uppercase[i] = ch
    THEN Lowercase[CHOOSE i \in 1..Len(Uppercase) : Uppercase[i] = ch]
    ELSE ch

\* str.lower(), character by character
RECURSIVE Lower(_)
Lower(text) ==
    IF Len(text) = 0
    THEN ""
    ELSE LowerChar(SubSeq(text, 1, 1)) \o Lower(SubSeq(text, 2, Len(text)))

\* str.endswith(suffix)
EndsWith(text, suffix) ==
    /\ Len(text) >= Len(suffix)
    /\ SubSeq(text, Len(text) - Len(suffix) + 1, Len(text)) = suffix

\* _CONVENTIONAL_TYPES
CONVENTIONAL_TYPES ==
    {"feat", "fix", "refactor", "docs", "test", "chore", "style", "ci"}

\* The characters \w matches in a commit message: letters, digits and the
\* underscore.
WordChars ==
    LET all == "abcdefghijklmnopqrstuvwxyzABCDEFGHIJKLMNOPQRSTUVWXYZ0123456789_" IN
    {SubSeq(all, i, i) : i \in 1..Len(all)}
IsWordChar(ch) == ch \in WordChars

\* The length of the run of word characters of msg that begins after its
\* first n characters, plus n: where the greedy (\w+) from the start ends.
RECURSIVE WordEnd(_, _)
WordEnd(msg, n) ==
    IF n < Len(msg) /\ IsWordChar(SubSeq(msg, n + 1, n + 1))
    THEN WordEnd(msg, n + 1)
    ELSE n

\* A classifier that keeps the parsed word as the type, known or not.
CommitTypeOfAnyWord(msg) ==
    LET n == WordEnd(msg, 0) IN
    IF n >= 1 /\ n < Len(msg) /\ SubSeq(msg, n + 1, n + 1) \in {"(", ":", "!"}
    THEN Lower(SubSeq(msg, 1, n))
    ELSE "other"

\* The bucket of a commit message: re.compile(r"^(\w+)[\(:\!]").match(msg),
\* the word in lower case when it is a conventional type, else "other";
\* "other" also without a match.
CommitType(msg) ==
    LET n == WordEnd(msg, 0) IN
    IF n >= 1 /\ n < Len(msg) /\ SubSeq(msg, n + 1, n + 1) \in {"(", ":", "!"}
    THEN LET ctype == Lower(SubSeq(msg, 1, n)) IN
         IF ctype \in CONVENTIONAL_TYPES THEN ctype ELSE "other"
    ELSE "other"

\* The buckets of the commits, in their order (the for loop over commits).
RECURSIVE CommitTypes(_)
CommitTypes(commits) ==
    IF commits = <<>>
    THEN <<>>
    ELSE <<CommitType(Head(commits).message)>> \o CommitTypes(Tail(commits))

\* dt.hour and dt.weekday() (0 = Monday) of a UTC time in seconds since the
\* epoch; 1970-01-01 was a Thursday.
HourOf(seconds) == (seconds \div 3600) % 24
WeekdayOf(seconds) == ((seconds \div 86400) + 3) % 7

\* commit_patterns = None
NoCommitPatterns ==
    [known |-> FALSE, feat |-> 0, fix |-> 0, refactor |-> 0, docs |-> 0,
     test |-> 0, chore |-> 0, style |-> 0, ci |-> 0, other |-> 0, total |-> 0,
     hourly_distribution |-> <<>>, weekday_distribution |-> <<>>]

\* _analyze_commit_patterns; the two histograms are the dicts as the lists
\* of their items.  A commit without a date, or with one that does not
\* parse, is in neither histogram.
AnalyzeCommitPatterns(commits) ==
    LET types == CommitTypes(commits)
        count(t) == Cardinality({i \in 1..Len(types) : types[i] = t})
        dated == SelectSeq(commits, LAMBDA c : c.date.set /\ c.date.iso)
    IN  [known |-> TRUE,
         feat |-> count("feat"), fix |-> count("fix"),
         refactor |-> count("refactor"), docs |-> count("docs"),
         test |-> count("test"), chore |-> count("chore"),
         style |-> count("style"), ci |-> count("ci"), other |-> count("other"),
         total |-> Len(commits),
         hourly_distribution |->
             TallyAll(<<>>, [i \in 1..Len(dated) |->
                                [name |-> HourOf(dated[i].date.v), count |-> 1]]),
         weekday_distribution |->
             TallyAll(<<>>, [i \in 1..Len(dated) |->
                                [name |-> WeekdayOf(dated[i].date.v), count |-> 1]])]

\* issue_insights = None
NoIssueInsights ==
    [known |-> FALSE, total_analyzed |-> 0, label_distribution |-> <<>>,
     top_reporters |-> <<>>]

\* _analyze_issue_insights: the labels with a name and the reporters with a
\* login are counted.
AnalyzeIssueInsights(issues) ==
    LET names == SelectSeq(Chain(issues, "labels"), LAMBDA name : name # "")
        reporters == SelectSeq(issues, LAMBDA issue : issue.login # "")
        reporter_counts ==
            TallyAll(<<>>, [i \in 1..Len(reporters) |->
                               [name |-> reporters[i].login, count |-> 1]])
    IN  [known |-> TRUE,
         total_analyzed |-> Len(issues),
         label_distribution |->
             TallyAll(<<>>, [i \in 1..Len(names) |->
                                [name |-> names[i], count |-> 1]]),
         top_reporters |-> TopTen(reporter_counts)]

\* since_ts / until_ts: the timestamp of the text when it is given and
\* parses, else None.
TimestampOf(text) == IF text.set /\ text.iso THEN Some(text.v) ELSE None

\* _collect_repo_stats from the return of gather: [raised |-> BOOLEAN, stats
\* |-> the RepoStats].  An element that is no object makes the loops over the
\* pull requests and the contributors and the three analyses raise.
RepoStatsOf(repo_name, since, until, meta, gathered) ==
    LET commits == OrEmptyList(gathered[1])
        since_ts == TimestampOf(since)
        until_ts == TimestampOf(until)
        lang_bytes == OrEmptyDict(gathered[2])
        raw_contributors == OrEmptyList(gathered[3])
        prs == OrEmptyList(gathered[4])
        issues == OrEmptyList(gathered[5])
    IN
    IF ~(/\ AllDicts(ItemsOf(commits)) /\ AllDicts(ItemsOf(raw_contributors))
         /\ AllDicts(ItemsOf(prs)) /\ AllDicts(ItemsOf(issues)))
    THEN [raised |-> TRUE, stats |-> <<>>]
    ELSE LET contributors ==
                 ContributorsOf(ItemsOf(raw_contributors), since_ts, until_ts)
         IN
         [raised |-> FALSE,
          stats |->
            [name |-> repo_name,
             total_commits |-> Len(ItemsOf(commits)),
             total_additions |-> Total(contributors, "additions"),
             total_deletions |-> Total(contributors, "deletions"),
             open_prs |-> OpenPrs(ItemsOf(prs)),
             merged_prs |-> MergedPrs(ItemsOf(prs)),
             open_issues |-> Len(ItemsOf(issues)),
             languages |-> LanguagesOf(lang_bytes),
             contributors |-> contributors,
             stars |-> MetaGet(meta, "stargazers_count", 0),
             forks |-> MetaGet(meta, "forks_count", 0),
             is_archived |-> MetaGet(meta, "archived", FALSE),
             commit_patterns |-> IF IsList(commits)
                                 THEN AnalyzeCommitPatterns(ItemsOf(commits))
                                 ELSE NoCommitPatterns,
             contributor_trends |->
                 IF IsList(raw_contributors)
                 THEN AnalyzeContributorTrends(ItemsOf(raw_contributors),
                                               since_ts, until_ts)
                 ELSE <<>>,
             pr_insights |-> IF IsList(prs)
                             THEN AnalyzePrInsights(ItemsOf(prs))
                             ELSE NoPrInsights,
             issue_insights |-> IF IsList(issues)
                                THEN AnalyzeIssueInsights(ItemsOf(issues))
                                ELSE NoIssueInsights]]

\* _collect_repo_stats: the five fetches are gathered, then the RepoStats
\* is built from their results.
CollectRepoStats(repo_name, since, until, meta, outcomes) ==
    LET g == Gather(outcomes) IN
    IF g.raised
    THEN [raised |-> TRUE, stats |-> <<>>]
    ELSE RepoStatsOf(repo_name, since, until, meta, g.results)

\* ----------------------------------------------------- aggregate_org_report
KNOWN_BOTS ==
    {"dependabot", "renovate", "github-actions", "codecov", "snyk-bot",
     "greenkeeper", "dependabot-preview", "renovate-bot", "allcontributors",
     "imgbot", "stale", "mergify", "sonarcloud"}

\* A bot test that takes any username with "bot" in it for a bot.
IsBotBySubstring(username) ==
    LET lower == Lower(username) IN
    \E i \in 1..Len(lower) : i + 2 <= Len(lower) /\ SubSeq(lower, i, i + 2) = "bot"

\* _is_bot
IsBot(username) ==
    LET lower == Lower(username) IN
    EndsWith(lower, "[bot]") \/ lower \in KNOWN_BOTS

\* A sort key that is the commits whatever sort_by is.
SortKeyCommits(sort_by, c) == c.commits

\* _sort_key
SortKey(sort_by, c) ==
    CASE sort_by = "additions" -> c.additions
      [] sort_by = "deletions" -> c.deletions
      [] sort_by = "lines" -> c.additions + c.deletions
      [] OTHER -> c.commits

\* if exclude_repos: repos = [r for r in repos if r["name"] not in excluded]
Exclude(repo_list, exclude_repos) ==
    SelectSeq(repo_list, LAMBDA r : r.name \notin exclude_repos)

\* What collect_and_update has returned for a repository: nothing yet, None,
\* or the RepoStats.
Pending == [state |-> "pending", stats |-> <<>>]
NoStats == [state |-> "none", stats |-> <<>>]
StatsOf(stats) == [state |-> "stats", stats |-> stats]

\* RepoStatsList that loses the first RepoStats.
RepoStatsListAfterFirst(gathered) ==
    LET kept == SelectSeq(gathered, LAMBDA r : r.state = "stats") IN
    [i \in 1..(Len(kept) - 1) |-> kept[i + 1].stats]

\* repo_stats_list = [r for r in results if r is not None]
RepoStatsList(gathered) ==
    LET kept == SelectSeq(gathered, LAMBDA r : r.state = "stats") IN
    [i \in 1..Len(kept) |-> kept[i].stats]

\* MergeContributor with the new record put in place of the existing one.
MergeContributorOverwrite(totals, c) ==
    IF \E i \in 1..Len(totals) : totals[i].username = c.username
    THEN LET i == CHOOSE i \in 1..Len(totals) : totals[i].username = c.username
         IN  [totals EXCEPT ![i] = c]
    ELSE Append(totals, c)

\* One turn of the contributor merge: contrib_totals[c.username] is created,
\* or replaced by the sum of the existing record and c.
MergeContributor(totals, c) ==
    IF \E i \in 1..Len(totals) : totals[i].username = c.username
    THEN LET i == CHOOSE i \in 1..Len(totals) : totals[i].username = c.username
             existing == totals[i]
         IN  [totals EXCEPT ![i] =
                 [username |-> c.username,
                  commits |-> existing.commits + c.commits,
                  additions |-> existing.additions + c.additions,
                  deletions |-> existing.deletions + c.deletions]]
    ELSE Append(totals, c)

RECURSIVE MergeContributors(_, _)
MergeContributors(totals, cs) ==
    IF cs = <<>>
    THEN totals
    ELSE MergeContributors(MergeContributor(totals, Head(cs)), Tail(cs))

\* One turn of the language merge: lang_totals[lang.language] += lang.bytes
MergeLanguage(totals, lang) ==
    IF \E i \in 1..Len(totals) : totals[i].language = lang.language
    THEN LET i == CHOOSE i \in 1..Len(totals) : totals[i].language = lang.language
         IN  [totals EXCEPT ![i].bytes = @ + lang.bytes]
    ELSE Append(totals, [language |-> lang.language, bytes |-> lang.bytes])

RECURSIVE MergeLanguages(_, _)
MergeLanguages(totals, langs) ==
    IF langs = <<>>
    THEN totals
    ELSE MergeLanguages(MergeLanguage(totals, Head(langs)), Tail(langs))

\* The org-level contributor list: merged by username, filtered, sorted.
OrgContributors(repo_stats_list, sort_by, exclude_bots, min_commits) ==
    LET merged == MergeContributors(<<>>, Chain(repo_stats_list, "contributors"))
        no_bots == IF exclude_bots
                   THEN SelectSeq(merged, LAMBDA c : ~IsBot(c.username))
                   ELSE merged
        enough == IF min_commits > 0
                  THEN SelectSeq(no_bots, LAMBDA c : c.commits >= min_commits)
                  ELSE no_bots
    IN  SortedDesc(enough, [i \in 1..Len(enough) |-> SortKey(sort_by, enough[i])])

\* The merged languages with their share of all bytes, largest first.
OrgLanguages(repo_stats_list) ==
    LanguageStatsOf(MergeLanguages(<<>>, Chain(repo_stats_list, "languages")))

\* (avg, total_analyzed) of the insights that have the average, and their
\* mean weighted by total_analyzed, in tenths; None without weight.
WeightedAverage(all_pr, avg) ==
    LET weighted == SelectSeq(all_pr, LAMBDA pi : pi[avg].known)
        total_w == Total(weighted, "total_analyzed")
    IN  IF total_w > 0
        THEN Some(RoundDiv(SumOf([i \in 1..Len(weighted) |->
                                     weighted[i][avg].v * weighted[i].total_analyzed]),
                           total_w))
        ELSE None

\* The merge of the per-repository PR insights; None when no repository has
\* any.
OrgPrInsights(repo_stats_list) ==
    LET all_pr == SelectSeq(FieldKeys(repo_stats_list, "pr_insights"),
                            LAMBDA pi : pi.known)
    IN  IF all_pr = <<>>
        THEN NoPrInsights
        ELSE [known |-> TRUE,
              total_analyzed |-> Total(all_pr, "total_analyzed"),
              avg_merge_hours |-> WeightedAverage(all_pr, "avg_merge_hours"),
              median_merge_hours |-> None,
              avg_close_hours |-> WeightedAverage(all_pr, "avg_close_hours"),
              draft_count |-> Total(all_pr, "draft_count"),
              top_authors |-> TopTen(TallyAll(<<>>, Chain(all_pr, "top_authors")))]

\* A merge of the commit patterns that builds the sums whether or not any
\* repository has patterns.
OrgCommitPatternsAlways(repo_stats_list) ==
    LET all_patterns == SelectSeq(FieldKeys(repo_stats_list, "commit_patterns"),
                                  LAMBDA p : p.known)
    IN  [known |-> TRUE,
         feat |-> Total(all_patterns, "feat"),
         fix |-> Total(all_patterns, "fix"),
         refactor |-> Total(all_patterns, "refactor"),
         docs |-> Total(all_patterns, "docs"),
         test |-> Total(all_patterns, "test"),
         chore |-> Total(all_patterns, "chore"),
         style |-> Total(all_patterns, "style"),
         ci |-> Total(all_patterns, "ci"),
         other |-> Total(all_patterns, "other"),
         total |-> Total(all_patterns, "total"),
         hourly_distribution |->
             TallyAll(<<>>, Chain(all_patterns, "hourly_distribution")),
         weekday_distribution |->
             TallyAll(<<>>, Chain(all_patterns, "weekday_distribution"))]

\* The merge of the per-repository commit patterns: the counts summed, the
\* histograms summed bucket by bucket; None when no repository has any.
OrgCommitPatterns(repo_stats_list) ==
    LET all_patterns == SelectSeq(FieldKeys(repo_stats_list, "commit_patterns"),
                                  LAMBDA p : p.known)
    IN  IF all_patterns = <<>>
        THEN NoCommitPatterns
        ELSE [known |-> TRUE,
              feat |-> Total(all_patterns, "feat"),
              fix |-> Total(all_patterns, "fix"),
              refactor |-> Total(all_patterns, "refactor"),
              docs |-> Total(all_patterns, "docs"),
              test |-> Total(all_patterns, "test"),
              chore |-> Total(all_patterns, "chore"),
              style |-> Total(all_patterns, "style"),
              ci |-> Total(all_patterns, "ci"),
              other |-> Total(all_patterns, "other"),
              total |-> Total(all_patterns, "total"),
              hourly_distribution |->
                  TallyAll(<<>>, Chain(all_patterns, "hourly_distribution")),
              weekday_distribution |->
                  TallyAll(<<>>, Chain(all_patterns, "weekday_distribution"))]

\* The merge of the per-repository issue insights; None when no repository
\* has any.
OrgIssueInsights(repo_stats_list) ==
    LET all_issues == SelectSeq(FieldKeys(repo_stats_list, "issue_insights"),
                                LAMBDA ii : ii.known)
    IN  IF all_issues = <<>>
        THEN NoIssueInsights
        ELSE [known |-> TRUE,
              total_analyzed |-> Total(all_issues, "total_analyzed"),
              label_distribution |->
                  TallyAll(<<>>, Chain(all_issues, "label_distribution")),
              top_reporters |->
                  TopTen(TallyAll(<<>>, Chain(all_issues, "top_reporters")))]

\* One turn of the trend merge: org_trend_map[t.username] is created, or
\* replaced by the merge of the existing trend and t: the earlier first
\* week, the later last week, the span in weeks between them, and the sum of
\* the active weeks capped at that span.
MergeTrend(trend_map, t) ==
    IF \E i \in 1..Len(trend_map) : trend_map[i].username = t.username
    THEN LET i == CHOOSE i \in 1..Len(trend_map) : trend_map[i].username = t.username
             existing == trend_map[i]
             first == Min(existing.first_active_week, t.first_active_week)
             last == Max(existing.last_active_week, t.last_active_week)
             span_weeks == Max(1, (last - first) \div 7 + 1)
             merged_active == existing.active_weeks + t.active_weeks
         IN  [trend_map EXCEPT ![i] =
                 [username |-> t.username,
                  first_active_week |-> first,
                  last_active_week |-> last,
                  active_weeks |-> Min(merged_active, span_weeks),
                  total_weeks |-> span_weeks]]
    ELSE Append(trend_map, t)

RECURSIVE MergeTrends(_, _)
MergeTrends(trend_map, ts) ==
    IF ts = <<>>
    THEN trend_map
    ELSE MergeTrends(MergeTrend(trend_map, Head(ts)), Tail(ts))

\* The org-level trends with no filter applied.
OrgContributorTrendsUnfiltered(repo_stats_list, org_contributors, exclude_bots, min_commits) ==
    LET org_trend_map ==
            MergeTrends(<<>>, Chain(repo_stats_list, "contributor_trends"))
    IN  SortedDesc(org_trend_map, FieldKeys(org_trend_map, "active_weeks"))

\* The org-level trends: merged by username, cut down to the usernames of
\* the contributor list when a filter is on, most active weeks first.
OrgContributorTrends(repo_stats_list, org_contributors, exclude_bots, min_commits) ==
    LET org_trend_map ==
            MergeTrends(<<>>, Chain(repo_stats_list, "contributor_trends"))
        filtered_usernames ==
            {org_contributors[i].username : i \in 1..Len(org_contributors)}
        kept == IF exclude_bots \/ min_commits > 0
                THEN SelectSeq(org_trend_map,
                               LAMBDA t : t.username \in filtered_usernames)
                ELSE org_trend_map
    IN  SortedDesc(kept, FieldKeys(kept, "active_weeks"))

\* archived_repos = sum(1 for r in repo_stats_list if r.is_archived)
ArchivedRepos(repo_stats_list) ==
    Cardinality({i \in 1..Len(repo_stats_list) : repo_stats_list[i].is_archived})

\* The OrgReport built from the collected RepoStats.
OrgReportOf(repo_stats_list, failed, a) ==
    [total_repos |-> Len(repo_stats_list),
     total_commits |-> Total(repo_stats_list, "total_commits"),
     total_additions |-> Total(repo_stats_list, "total_additions"),
     total_deletions |-> Total(repo_stats_list, "total_deletions"),
     total_open_prs |-> Total(repo_stats_list, "open_prs"),
     total_merged_prs |-> Total(repo_stats_list, "merged_prs"),
     total_open_issues |-> Total(repo_stats_list, "open_issues"),
     languages |-> OrgLanguages(repo_stats_list),
     contributors |-> OrgContributors(repo_stats_list, a.sort_by, a.exclude_bots,
                                      a.min_commits),
     repos |-> repo_stats_list,
     failed_repos |-> failed,
     total_stars |-> Total(repo_stats_list, "stars"),
     total_forks |-> Total(repo_stats_list, "forks"),
     archived_repos |-> ArchivedRepos(repo_stats_list),
     commit_patterns |-> OrgCommitPatterns(repo_stats_list),
     pr_insights |-> OrgPrInsights(repo_stats_list),
     issue_insights |-> OrgIssueInsights(repo_stats_list),
     contributor_trends |->
         OrgContributorTrends(repo_stats_list,
                              OrgContributors(repo_stats_list, a.sort_by,
                                              a.exclude_bots, a.min_commits),
                              a.exclude_bots, a.min_commits)]

\* -------------------------------------------------------- actions (aggregator)
\* The five fetches of _collect_repo_stats, in the order of its gather:
\* commits, languages, contributor statistics, pull requests, issues.
Fetches == 1..5

\* The tasks of a collection that has not begun, and those create_task has
\* just made.
NotCreated == [k \in Fetches |-> "new"]
Created5 == [k \in Fetches |-> "running"]

\* A gather that is over as soon as one of its tasks has raised.
GatherDoneOrRaised(tasks, outcomes) ==
    \/ \A k \in Fetches : tasks[k] = "done"
    \/ \E k \in Fetches : tasks[k] = "done" /\ outcomes[k].kind # "ok"

\* await asyncio.gather(..., return_exceptions=True) is over: each of the
\* tasks is done, with a result or with an exception.
GatherDone(tasks, outcomes) == \A k \in Fetches : tasks[k] = "done"

\* The collection of the resolved repositories begins: gather creates one
\* collect_and_update per repository.
StartCollecting(repo_list) ==
    /\ phase' = "collecting"
    /\ repos' = repo_list
    /\ collected' = [i \in 1..Len(repo_list) |-> Pending]
    /\ fetching' = [i \in 1..Len(repo_list) |-> NotCreated]

\* aggregate_org_report is called: with a repository name it goes on to the
\* collection, without one it awaits client.list_repos.
AggregateCall ==
    /\ phase = "start"
    /\ IF args.repo # ""
       THEN /\ StartCollecting(Exclude(<<NameOnly(args.repo)>>, args.exclude_repos))
            /\ UNCHANGED listed
       ELSE /\ phase' = "listing"
            /\ listed' = listed + 1
            /\ UNCHANGED <<repos, collected, fetching>>
    /\ UNCHANGED <<args, server, failed_repos, report, client_vars>>

\* ListReturned with the exception of list_repos caught and an empty
\* repository list collected instead.
ListReturnedSwallowing ==
    /\ phase = "listing"
    /\ IF server.list.kind = "ok"
       THEN StartCollecting(Exclude(server.list.body.items, args.exclude_repos))
       ELSE StartCollecting(<<>>)
    /\ UNCHANGED <<args, server, listed, failed_repos, report, client_vars>>

\* client.list_repos returns the list or raises; what it raises leaves
\* aggregate_org_report.
ListReturned ==
    /\ phase = "listing"
    /\ IF server.list.kind = "ok"
       THEN /\ StartCollecting(Exclude(server.list.body.items, args.exclude_repos))
            /\ UNCHANGED report
       ELSE /\ phase' = "raised"
            /\ report' = server.list
            /\ UNCHANGED <<repos, collected, fetching>>
    /\ UNCHANGED <<args, server, listed, failed_repos, client_vars>>

\* CollectAndUpdate with the name of a failing repository not recorded.
CollectAndUpdateUnrecorded(i) ==
    /\ phase = "collecting"
    /\ i \in 1..Len(repos)
    /\ collected[i].state = "pending"
    /\ LET name == repos[i].name
           c == CollectRepoStats(name, args.since, args.until, repos[i],
                                 server.data[name])
       IN  collected' = [collected EXCEPT ![i] =
                            IF c.raised THEN NoStats ELSE StatsOf(c.stats)]
    /\ UNCHANGED <<args, server, phase, listed, repos, fetching, failed_repos,
                   report, client_vars>>

\* collect_and_update for the i-th repository runs to its end: the RepoStats,
\* or None with the name appended to failed_repos when the collection raises.
CollectAndUpdate(i) ==
    /\ phase = "collecting"
    /\ i \in 1..Len(repos)
    /\ collected[i].state = "pending"
    /\ LET name == repos[i].name
           c == CollectRepoStats(name, args.since, args.until, repos[i],
                                 server.data[name])
       IN  IF c.raised
           THEN /\ collected' = [collected EXCEPT ![i] = NoStats]
                /\ failed_repos' = Append(failed_repos, name)
           ELSE /\ collected' = [collected EXCEPT ![i] = StatsOf(c.stats)]
                /\ UNCHANGED failed_repos
    /\ UNCHANGED <<args, server, phase, listed, repos, fetching, report, client_vars>>

\* collect_and_update for the i-th repository begins: _collect_repo_stats
\* creates its five tasks and awaits their gather.
CreateTasks(i) ==
    /\ phase = "collecting"
    /\ i \in 1..Len(repos)
    /\ collected[i].state = "pending"
    /\ fetching[i] = NotCreated
    /\ fetching' = [fetching EXCEPT ![i] = Created5]
    /\ UNCHANGED <<args, server, phase, listed, repos, collected, failed_repos,
                   report, client_vars>>

\* The k-th fetch of the i-th repository ends, with its result or with the
\* exception it raises.
FetchEnds(i, k) ==
    /\ phase = "collecting"
    /\ i \in 1..Len(repos)
    /\ fetching[i][k] = "running"
    /\ fetching' = [fetching EXCEPT ![i][k] = "done"]
    /\ UNCHANGED <<args, server, phase, listed, repos, collected, failed_repos,
                   report, client_vars>>

\* The gather of the i-th repository is over and collect_and_update runs to
\* its end.
GatherReturns(i) ==
    /\ i \in 1..Len(repos)
    /\ GatherDone(fetching[i], server.data[repos[i].name])
    /\ CollectAndUpdate(i)

\* gather has every result: the report is built and returned.
Report ==
    /\ phase = "collecting"
    /\ \A i \in 1..Len(repos) : collected[i].state # "pending"
    /\ phase' = "returned"
    /\ report' = Ret("ok", 0, OrgReportOf(RepoStatsList(collected), failed_repos, args), <<>>)
    /\ UNCHANGED <<args, server, listed, repos, collected, fetching, failed_repos,
                   client_vars>>

NextAggregate ==
    \/ AggregateCall
    \/ ListReturned
    \/ \E i \in 1..Len(AllNames) : CollectAndUpdate(i)
    \/ Report

\* ------------------------------------------------------------ Init (aggregator)
\* The client's own state plays no part: every fetch is taken by its outcome.
ClientAside ==
    /\ now = 0
    /\ sem = Concurrency
    /\ waiters = <<>>
    /\ remaining = None
    /\ reset_at = None
    /\ wake = [t \in Tasks |-> 0]
    /\ no_cache = TRUE
    /\ cache = [k \in Keys |-> NoEntry]
    /\ pc = [t \in Tasks |-> "done"]
    /\ tv = [t \in Tasks |-> Locals("languages", 0, 0, 0)]

Payload(body) == Ret("ok", 200, body, <<>>)

\* What the five fetches of a repository can end with.
\* Commits of every kind: conventional types in either case, with a scope
\* and with "!", a word that is no type, a word followed by a space, a blank
\* before the word, no message; dates in three hours of two days, a date
\* that does not parse, no date.
CommitsA ==
    <<CommitItem("feat: add", At(Hours(1))),
      CommitItem("Fix(core)!: crash", At(Hours(25))),
      CommitItem("feature: more", At(Hours(25) + 1800)),
      CommitItem("docs update", BadTime),
      CommitItem("", NoTime)>>
CommitsB ==
    <<CommitItem("CI!: pin", At(Hours(1) + 60)),
      CommitItem(" fix: late", At(Hours(47))),
      CommitItem("Merge pull request #1", NoTime),
      CommitItem("test_2(unit): x", At(Hours(47)))>>
CommitsOutcomes ==
    {Payload(JList(CommitsA)), Payload(JList(<<>>)),
     Payload(JList(<<NotADict>>))} \cup Failures
LanguagesOutcomes ==
    {Payload(JObj(<<[language |-> "JS", bytes |-> 30],
                     [language |-> "Python", bytes |-> 50]>>)),
     Payload(JObj(<<[language |-> "Shell", bytes |-> 0]>>)),
     Payload(JObj(<<>>)), Payload(JList(<<>>))} \cup Failures
ContributorsA ==
    <<ContributorItem("alice", <<Week(0, 10, 2, 3)>>),
      ContributorItem("bob", <<Week(0, 0, 1, 1)>>),
      ContributorItem("Renovate", <<Week(0, 2, 2, 5)>>),
      ContributorItem("my-bot-project", <<Week(0, 1, 1, 2)>>)>>
ContributorsB ==
    <<ContributorItem("dependabot[bot]", <<Week(0, 1, 1, 4)>>),
      ContributorItem("SomeBot[bot]", <<Week(0, 1, 0, 1)>>),
      ContributorItem("my-bot-project", <<Week(0, 0, 1, 1)>>),
      ContributorItem("", <<Week(0, 9, 9, 9)>>),
      ContributorItem("carol", <<Week(0, 0, 0, 0)>>),
      ContributorItem("alice", <<Week(0, 5, 5, 1), Week(7 * 86400, 1, 0, 1)>>)>>
ContributorsOutcomes ==
    {Payload(JList(ContributorsA)), Payload(JList(ContributorsB)),
     Payload(JList(<<NotADict>>))} \cup Failures
\* Two pull requests merged after 8 and 12 hours, one open, one closed
\* unmerged after 5 hours.
PullsA ==
    <<PullItem("alice", At(0), At(Hours(8)), At(Hours(8)), "closed", FALSE),
      PullItem("bob", At(Hours(1)), NoTime, NoTime, "open", TRUE),
      PullItem("alice", At(Hours(2)), NoTime, At(Hours(7)), "closed", FALSE),
      PullItem("bob", At(Hours(2)), At(Hours(14)), At(Hours(14)), "closed", FALSE)>>
\* One pull request merged after 20 hours, and three that give no sample:
\* no creation time, a creation time that does not parse, a merge before
\* the creation.
PullsB ==
    <<PullItem("carol", At(Hours(4)), At(Hours(24)), At(Hours(24)), "closed", FALSE),
      PullItem("", NoTime, At(Hours(3)), At(Hours(3)), "closed", FALSE),
      PullItem("alice", BadTime, NoTime, At(Hours(9)), "closed", FALSE),
      PullItem("carol", At(Hours(6)), At(Hours(5)), BadTime, "open", FALSE)>>
\* Three pull requests merged after 12, 48 and 24 hours and one merged before
\* its creation; two merged after 12 and 48 hours; two merged after 1 hour
\* and after 1 hour and a half.
PullsC ==
    <<PullItem("alice", At(0), At(Hours(12)), At(Hours(12)), "closed", FALSE),
      PullItem("bob", At(Hours(2)), At(Hours(50)), At(Hours(50)), "closed", FALSE),
      PullItem("bob", At(Hours(9)), At(Hours(8)), At(Hours(8)), "closed", FALSE),
      PullItem("carol", At(Hours(1)), At(Hours(25)), At(Hours(25)), "closed", FALSE)>>
PullsD ==
    <<PullItem("alice", At(Hours(3)), At(Hours(51)), At(Hours(51)), "closed", FALSE),
      PullItem("bob", At(0), At(Hours(12)), At(Hours(12)), "closed", FALSE)>>
PullsE ==
    <<PullItem("alice", At(0), At(Hours(1)), At(Hours(1)), "closed", FALSE),
      PullItem("bob", At(Hours(1)), At(Hours(2) + 1800), At(Hours(3)), "closed", FALSE)>>
PrsOutcomes ==
    {Payload(JList(PullsA)), Payload(JList(PullsB)), Payload(JList(PullsC)),
     Payload(JList(PullsD)), Payload(JList(PullsE)), Payload(JList(<<>>)),
     Payload(JList(<<NotADict>>))} \cup Failures
\* Issues with two labels, with a label without a name, without a user.
IssuesA ==
    <<IssueItem("alice", <<"bug", "ui">>), IssueItem("", <<"bug", "">>),
      IssueItem("bob", <<>>), IssueItem("alice", <<"ui">>)>>
IssuesOutcomes ==
    {Payload(JList(IssuesA)), Payload(JList(<<NotADict>>))} \cup Failures

\* Every combination of outcomes of the five fetches.
AllOutcomes ==
    CommitsOutcomes \X LanguagesOutcomes \X ContributorsOutcomes
        \X PrsOutcomes \X IssuesOutcomes

\* A few repositories: a busy one, one without issues, one
\* all of whose fetches fail, one whose pull-request list holds a null, an
\* empty one whose languages have no bytes.
SomeOutcomes ==
    {<<Payload(JList(CommitsA)),
       Payload(JObj(<<[language |-> "JS", bytes |-> 30],
                       [language |-> "Python", bytes |-> 50]>>)),
       Payload(JList(ContributorsA)), Payload(JList(PullsA)),
       Payload(JList(IssuesA))>>,
     <<Payload(JList(CommitsB)),
       Payload(JObj(<<[language |-> "Python", bytes |-> 15],
                       [language |-> "Go", bytes |-> 1]>>)),
       Payload(JList(ContributorsB)), Payload(JList(PullsB)),
       Payload(JList(<<>>))>>,
     <<Failure("TransportError", 0), Failure("TransportError", 0),
       Failure("TransportError", 0), Failure("TransportError", 0),
       Failure("TransportError", 0)>>,
     <<Payload(JList(CommitsA)), Payload(JObj(<<>>)),
       Payload(JList(<<>>)), Payload(JList(<<NotADict>>)),
       Payload(JList(<<>>))>>,
     <<Payload(JList(<<>>)),
       Payload(JObj(<<[language |-> "Shell", bytes |-> 0],
                       [language |-> "JS", bytes |-> 0]>>)),
       Payload(JList(<<>>)), Payload(JList(<<>>)), Payload(JList(<<>>))>>}

\* The dict of the i-th repository in the list_repos payload.
Listed(i) == RepoDict(AllNames[i], 5 * i, i, i % 2 = 0)

\* What client.list_repos can end with: the repositories of the account, any
\* of them in any order, or an exception (a status other than 404 from the
\* organization endpoint, any failure of the user-account endpoint).
ListOutcomes ==
    UNION {{Payload(JList([k \in 1..n |-> Listed(order[k])])) :
               order \in {f \in [1..n -> 1..MaxRepos] :
                             \A x, y \in 1..n : x # y => f[x] # f[y]}} :
           n \in 0..MaxRepos}
    \cup {Failure("HTTPStatusError", 500), Failure("HTTPStatusError", 404),
          Failure("TransportError", 0)}

\* sort_by (the last is none of the four keys), exclude_bots, min_commits
Policies ==
    {<<"commits", FALSE, 0>>, <<"lines", TRUE, 0>>, <<"additions", FALSE, 2>>,
     <<"deletions", TRUE, 2>>, <<"name", FALSE, 0>>}

Arguments(repo, exclude_repos, policy) ==
    [repo |-> repo, exclude_repos |-> exclude_repos, since |-> NoTime,
     until |-> NoTime, sort_by |-> policy[1], exclude_bots |-> policy[2],
     min_commits |-> policy[3]]

InitCall ==
    /\ ClientAside
    /\ phase = "start"
    /\ listed = 0
    /\ repos = <<>>
    /\ collected = <<>>
    /\ fetching = <<>>
    /\ failed_repos = <<>>
    /\ report = NoRet

\* aggregate_org_report over an account of up to MaxRepos repositories, or
\* over one named repository, with and without exclusions.
InitAggregate ==
    /\ InitCall
    /\ \E repo \in {"", AllNames[1]}, ex \in SUBSET RepoNames, policy \in Policies :
          args = Arguments(repo, ex, policy)
    /\ \E l \in ListOutcomes, d \in [RepoNames -> SomeOutcomes] :
          /\ server = [list |-> l, data |-> d]
          /\ args.repo # "" => l = Payload(JList(<<>>))

SpecAggregate == InitAggregate /\ [][NextAggregate]_vars

\* One repository collected, alone in its account or named in the call, for
\* every combination of outcomes of its five fetches.
InitCollect ==
    /\ InitCall
    /\ \E repo \in {"", AllNames[1]} :
          args = Arguments(repo, {}, <<"commits", FALSE, 0>>)
    /\ \E o \in AllOutcomes :
          server = [list |-> Payload(JList(<<Listed(1)>>)),
                    data |-> [n \in RepoNames |-> o]]

SpecCollect == InitCollect /\ [][NextAggregate]_vars

\* aggregate_org_report with the tasks of each collection one by one.
NextFetches ==
    \/ AggregateCall
    \/ ListReturned
    \/ \E i \in 1..Len(AllNames) : CreateTasks(i)
    \/ \E i \in 1..Len(AllNames), k \in Fetches : FetchEnds(i, k)
    \/ \E i \in 1..Len(AllNames) : GatherReturns(i)
    \/ Report

\* A repository whose commits cannot be fetched and whose statistics time
\* out, and one whose pull-request list holds a null.
FetchProfiles ==
    {<<Failure("HTTPStatusError", 500),
       Payload(JObj(<<[language |-> "Python", bytes |-> 15]>>)),
       Failure("TransportError", 0), Payload(JList(PullsB)),
       Payload(JList(<<>>))>>,
     <<Payload(JList(CommitsB)), Payload(JObj(<<>>)),
       Payload(JList(<<>>)), Payload(JList(<<NotADict>>)),
       Payload(JList(<<>>))>>}

\* aggregate_org_report over an account of MaxRepos repositories.
InitFetches ==
    /\ InitCall
    /\ args = Arguments("", {}, <<"commits", FALSE, 0>>)
    /\ \E d \in [RepoNames -> FetchProfiles] :
          server = [list |-> Payload(JList([k \in 1..MaxRepos |-> Listed(k)])),
                    data |-> d]

SpecFetches == InitFetches /\ [][NextFetches]_vars

\* The week of the statistics, in seconds.
WeekSeconds == 7 * 86400

\* What the statistics of a repository two contributors share can hold:
\* alice active in the first week, in the third, or in the first two; a
\* record of her first week given twice; two records of bob a day apart.
Activities ==
    {<<ContributorItem("alice", <<Week(0, 1, 0, 1)>>)>>,
     <<ContributorItem("alice", <<Week(0, 1, 0, 1), Week(0, 2, 0, 1)>>)>>,
     <<ContributorItem("bob", <<Week(WeekSeconds, 1, 0, 1),
                                Week(WeekSeconds + 86400, 0, 1, 1)>>)>>,
     <<ContributorItem("alice", <<Week(2 * WeekSeconds, 1, 0, 1)>>)>>,
     <<ContributorItem("alice", <<Week(0, 3, 1, 1), Week(WeekSeconds, 2, 1, 1)>>),
       ContributorItem("bob", <<Week(WeekSeconds, 0, 4, 1)>>)>>}

\* The outcomes of the five fetches of a repository that has contributor
\* statistics and nothing else.
StatisticsOnly(raw_contributors) ==
    <<Payload(JList(<<>>)), Payload(JObj(<<>>)), Payload(JList(raw_contributors)),
      Payload(JList(<<>>)), Payload(JList(<<>>))>>

\* aggregate_org_report over MaxShared repositories, listed in any order,
\* that share their contributors.
InitTrends ==
    /\ InitCall
    /\ args = Arguments("", {}, <<"commits", FALSE, 0>>)
    /\ \E order \in {f \in [1..MaxShared -> 1..MaxShared] :
                         \A x, y \in 1..MaxShared : x # y => f[x] # f[y]},
          d \in [{AllNames[i] : i \in 1..MaxShared} -> Activities] :
          server = [list |-> Payload(JList([k \in 1..MaxShared |-> Listed(order[k])])),
                    data |-> [n \in DOMAIN d |-> StatisticsOnly(d[n])]]

SpecTrends == InitTrends /\ [][NextAggregate]_vars

\* ------------------------------------------- the collection and its tasks
\* The fetch tasks _collect_repo_stats creates for the first repository are
\* the tasks of the client, in the order of their creation: list_commits,
\* get_languages, get_contributor_stats.  The event loop first runs a task
\* once it has been created.
TaskStarts(t) ==
    /\ phase = "collecting"
    /\ Len(fetching) >= 1
    /\ fetching[1] # NotCreated
    /\ Start(t)

\* A fetch ends; one that is a task of the client ends when its operation
\* has returned or raised.  What it ends with is taken from the server's
\* data, as in the collection.
TaskEnds(i, k) ==
    /\ (i = 1 /\ k \in Tasks) => pc[k] = "done"
    /\ FetchEnds(i, k)

\* aggregate_org_report with the tasks of its collections and their requests.
NextTasks ==
    \/ AggregateCall
    \/ ListReturned
    \/ \E i \in 1..Len(AllNames) : CreateTasks(i)
    \/ \E t \in Tasks : TaskStarts(t)
    \/ \E t \in Tasks : Granted(t)
    \/ \E t \in Tasks : Wake(t)
    \/ \E t \in Tasks : Respond(t)
    \/ TimerJump
    \/ \E i \in 1..Len(AllNames), k \in Fetches : TaskEnds(i, k)
    \/ \E i \in 1..Len(AllNames) : GatherReturns(i)
    \/ Report

\* The operation of the k-th fetch task: list_commits over two pages,
\* get_languages, get_contributor_stats with three attempts.
OperationOf(k) ==
    IF k = 1 THEN Locals("commits", 2, 0, 0)
    ELSE IF k = 2 THEN Locals("languages", 0, 0, 0)
    ELSE Locals("stats", 0, 0, 3)

\* aggregate_org_report over an account of one repository, or one whose
\* repositories cannot be listed; the repository is empty, or its commits
\* cannot be fetched and its pull-request list holds a null.  No cache, and
\* the clock moves from timer to timer.  The first two fetch tasks make
\* their requests; the others are taken by their outcome.
InitTasks ==
    /\ now = 0
    /\ sem = Concurrency
    /\ waiters = <<>>
    /\ remaining = None
    /\ reset_at = None
    /\ wake = [t \in Tasks |-> 0]
    /\ no_cache = TRUE
    /\ cache = [k \in Keys |-> NoEntry]
    /\ pc = [t \in Tasks |-> Idle(t)]
    /\ tv = [t \in Tasks |-> OperationOf(t)]
    /\ phase = "start"
    /\ listed = 0
    /\ repos = <<>>
    /\ collected = <<>>
    /\ fetching = <<>>
    /\ failed_repos = <<>>
    /\ report = NoRet
    /\ args = Arguments("", {}, <<"commits", FALSE, 0>>)
    /\ \E l \in {Payload(JList(<<Listed(1)>>)), Failure("HTTPStatusError", 500)},
          o \in {StatisticsOnly(<<>>),
                 <<Failure("TransportError", 0), Payload(JObj(<<>>)),
                   Payload(JList(<<>>)), Payload(JList(<<NotADict>>)),
                   Payload(JList(<<>>))>>} :
          server = [list |-> l, data |-> [n \in RepoNames |-> o]]

\* The event loop does not stop while a task is ready to run, a timer is
\* set, a request awaits its answer or a fetch has yet to end
\* (run_until_complete; every request is answered).
Scheduling == WF_vars(NextTasks)

SpecTasks == InitTasks /\ [][NextTasks]_vars
FairSpecTasks == SpecTasks /\ Scheduling

\* Contributor statistics over three weeks: alice active in each, bob in the
\* first only, carol in none, an element without author; or dave with
\* additions but no commit in the second week and bob active in the third.
StatisticsA ==
    <<ContributorItem("alice", <<Week(0, 1, 1, 1), Week(WeekSeconds, 2, 0, 1),
                                 Week(2 * WeekSeconds, 0, 3, 1)>>),
      ContributorItem("carol", <<Week(0, 0, 0, 0), Week(WeekSeconds, 0, 0, 0)>>),
      ContributorItem("bob", <<Week(0, 5, 5, 2), Week(WeekSeconds, 0, 0, 0)>>),
      ContributorItem("", <<Week(WeekSeconds, 7, 7, 7)>>)>>
StatisticsB ==
    <<ContributorItem("dave", <<Week(WeekSeconds, 4, 0, 0)>>),
      ContributorItem("bob", <<Week(2 * WeekSeconds, 1, 1, 1)>>)>>

\* The since and until of a call: none, the start of the second week, a
\* second off it, a text that does not parse.
Sinces == {NoTime, At(WeekSeconds), At(WeekSeconds + 1), BadTime}
Untils == {NoTime, At(WeekSeconds), At(WeekSeconds - 1), BadTime}

\* aggregate_org_report over one repository, for every window.
InitWindow ==
    /\ InitCall
    /\ \E since \in Sinces, until \in Untils :
          args = [Arguments("", {}, <<"commits", FALSE, 0>>)
                      EXCEPT !.since = since, !.until = until]
    /\ \E raw_contributors \in {StatisticsA, StatisticsB} :
          server = [list |-> Payload(JList(<<Listed(1)>>)),
                    data |-> [n \in RepoNames |-> StatisticsOnly(raw_contributors)]]

SpecWindow == InitWindow /\ [][NextAggregate]_vars

\* =================================================================== claims
\* The tasks that hold a permit: acquired (or handed over) and not released.
Holders == {t \in Tasks : pc[t] \in {"granted", "rate_wait", "in_flight"}}

\* Task t passes the Rate Governor's check in this step.
ChecksNow(t) ==
    /\ pc'[t] \in {"rate_wait", "in_flight"}
    /\ pc[t] # "rate_wait"
    /\ pc[t] = "in_flight" => (pc'[t] = "rate_wait" \/ tv'[t].reqs = tv[t].reqs + 1)

\* The request of task t leaves in this step.
IssuesNow(t) == pc'[t] = "in_flight" /\ tv'[t].reqs = tv[t].reqs + 1

\* C1: at every moment at most Concurrency GETs hold a permit, whatever the
\* number of tasks; a request that found no free permit waits in the queue and
\* is not in flight, and no task is in the queue twice.
C1_PermitsBounded ==
    /\ Cardinality(Holders) <= Concurrency
    /\ sem >= 0
    /\ \A i \in 1..Len(waiters) :
          /\ pc[waiters[i]] = "sem_wait"
          /\ waiters[i] \notin Holders
          /\ \A j \in 1..Len(waiters) : waiters[i] = waiters[j] => i = j
    /\ \A t \in Tasks : pc[t] = "sem_wait" => \E i \in 1..Len(waiters) : waiters[i] = t

\* C1 witness: every permit is held and a further request is suspended.
C1_Witness ==
    /\ Cardinality(Holders) = Concurrency
    /\ \E t \in Tasks : pc[t] = "sem_wait"

\* C2: every GET gives its permit back however it ends, so the free permits
\* and the permits held always add up to Concurrency, and all of them are free
\* whenever no GET is in progress.
C2_PermitsReturned ==
    /\ sem + Cardinality(Holders) = Concurrency
    /\ (\A t \in Tasks : pc[t] \in {"idle", "done", "backoff"}) => sem = Concurrency

\* C2 witness: all tasks have returned, one after a raised status and one
\* after a failure of the transport, and every permit is free.
C2_Witness ==
    /\ \A t \in Tasks : pc[t] = "done"
    /\ \E t \in Tasks : tv[t].ret.kind = "HTTPStatusError" /\ tv[t].reqs = 1
    /\ \E t \in Tasks : tv[t].ret.kind = "TransportError"
    /\ sem = Concurrency

\* C3: a task that passes the check is suspended exactly when the remaining
\* calls are known and at or below the threshold and the reset time is known;
\* with either unknown its request leaves in the same step.
C3_SuspendsIffLowQuota ==
    [][\A t \in Tasks :
          ChecksNow(t) =>
              /\ (pc'[t] = "rate_wait") <=>
                    (/\ remaining'.known
                     /\ remaining'.v <= Threshold
                     /\ reset_at'.known)
              /\ (~remaining'.known \/ ~reset_at'.known) => pc'[t] = "in_flight"]_vars

\* C3 witness: a task suspended by the check with the remaining calls exactly
\* at the threshold.
C3_Witness ==
    \E t \in Tasks :
        pc[t] = "rate_wait" /\ remaining = Some(Threshold) /\ reset_at.known

\* C4 as claimed: no request leaves while the recorded remaining calls are
\* known and at or below the threshold and the recorded reset time is still in
\* the future.
C4_NoIssueWhileExhausted ==
    [][\A t \in Tasks :
          IssuesNow(t) =>
              ~(/\ remaining'.known
                /\ remaining'.v <= Threshold
                /\ reset_at'.known
                /\ reset_at'.v > now')]_vars

\* C4 as amended: a request leaves without a sleep only when the check found
\* the remaining calls unknown or above the threshold or the reset time
\* unknown; otherwise it leaves after the task's own sleep, which ends past the
\* reset time the check read or 3600 seconds after the check, whichever comes
\* first.
C4_IssueAfterCheck ==
    [][\A t \in Tasks :
          IssuesNow(t) =>
              IF pc[t] = "rate_wait"
              THEN now > tv[t].chk_rst \/ now >= tv[t].chk_at + MaxWait
              ELSE ~(/\ remaining'.known
                     /\ remaining'.v <= Threshold
                     /\ reset_at'.known)]_vars

\* C4 witness: a request is in flight after a capped sleep while the quota is
\* still recorded as exhausted until a reset time that lies ahead.
C4_Witness ==
    \E t \in Tasks :
        /\ pc[t] = "in_flight"
        /\ now >= MaxWait
        /\ remaining.known /\ remaining.v <= Threshold
        /\ reset_at.known /\ reset_at.v > now

\* C5: a suspension by wait_if_needed lasts min(max(0, reset - now) + 1, 3600)
\* seconds, so at least 1 and at most 3600, also for a reset time in the past
\* or far ahead.
C5_SleepDuration ==
    \A t \in Tasks :
        pc[t] = "rate_wait" =>
            LET d == wake[t] - tv[t].chk_at
                ahead == tv[t].chk_rst - tv[t].chk_at
            IN  /\ d = (IF (IF ahead > 0 THEN ahead ELSE 0) + 1 < 3600
                        THEN (IF ahead > 0 THEN ahead ELSE 0) + 1
                        ELSE 3600)
                /\ d >= 1
                /\ d <= 3600

\* C5 witness: a sleep cut to the cap by a reset time far ahead.
C5_Witness ==
    \E t \in Tasks :
        /\ pc[t] = "rate_wait"
        /\ tv[t].chk_rst - tv[t].chk_at > MaxWait
        /\ wake[t] - tv[t].chk_at = MaxWait

\* C6 as claimed: no request ever fails inside the Rate Governor, whatever
\* the quota headers carry.
C6_GovernorNeverRaises ==
    \A t \in Tasks : tv[t].ret.kind # "ValueError"

\* The items of pages 1..k of a chain, in page order.
RECURSIVE ExpectedItems(_, _)
ExpectedItems(k, objPage) ==
    IF k = 0 THEN <<>>
    ELSE ExpectedItems(k - 1, objPage)
         \o (IF k = objPage THEN <<10 * k>> ELSE <<10 * k + 1, 10 * k + 2>>)

Paginating == {t \in Tasks : tv[t].op = "paginate"}

\* C7: over a chain of N pages whose first N-1 answers carry a next link,
\* the request for page k is outstanding only once the items of pages 1..k-1
\* have been received, and a pagination that returns has issued exactly N
\* requests and returns the items of all pages in page order.
C7_PaginateInOrder ==
    \A t \in Paginating :
        LET l == tv[t] IN
        /\ pc[t] \in {"sem_wait", "granted", "rate_wait"} =>
              /\ l.url = l.reqs + 1
              /\ l.results = ExpectedItems(l.url - 1, l.objPage)
        /\ pc[t] = "in_flight" =>
              /\ l.url = l.reqs
              /\ l.url <= l.pages
              /\ l.results = ExpectedItems(l.url - 1, l.objPage)
        /\ (pc[t] = "done" /\ l.ret.kind = "ok" /\ ~l.hit) =>
              /\ l.reqs = l.pages
              /\ l.ret.body = JList(ExpectedItems(l.pages, l.objPage))

\* C7 witness: a chain of three pages has been fetched with three requests.
C7_Witness ==
    \E t \in Paginating :
        /\ pc[t] = "done" /\ tv[t].ret.kind = "ok" /\ ~tv[t].hit
        /\ tv[t].pages = 3 /\ tv[t].reqs = 3
        /\ Len(tv[t].ret.body.items) >= 5

Stats == {t \in Tasks : tv[t].op = "stats"}

\* What the call returns and how many requests it took, but for the payload
\* clause, which the two statements of C8 below put differently.
C8_Requests(t) ==
    LET l == tv[t] IN
    /\ l.reqs <= l.retries
    /\ (pc[t] = "done" /\ ~l.hit /\ l.retries = 0) =>
          l.reqs = 0 /\ l.ret.kind = "ok" /\ l.ret.body = JList(<<>>)
    /\ (pc[t] = "done" /\ l.last.kind = "ok" /\ l.last.status = 202) =>
          l.reqs = l.retries /\ l.ret.kind = "ok" /\ l.ret.body = JList(<<>>)
    /\ (pc[t] = "done" /\ l.last.kind = "ok" /\ l.last.status # 202) =>
          l.reqs = l.attempt + 1 /\ l.ret.kind = "ok"

C9_Raised202 ==
    \A t \in Stats :
        LET l == tv[t] IN
        l.last.kind = "HTTPStatusError" =>
            IF l.last.status = 202 /\ l.attempt < l.retries - 1
            THEN /\ pc[t] = "backoff"
                 /\ l.delay = Backoff(l.attempt)
            ELSE /\ pc[t] = "done"
                 /\ l.ret = l.last
                 /\ l.reqs = l.attempt + 1

\* C9 witness: the 202 raised on the last of three attempts has reached the
\* caller.
C9_Witness ==
    \E t \in Stats :
        /\ pc[t] = "done" /\ tv[t].retries = 3 /\ tv[t].attempt = 2
        /\ tv[t].ret.kind = "HTTPStatusError" /\ tv[t].ret.status = 202

\* C10: a call that ends with an empty result or an error leaves no cache
\* entry that was not there when it began, so the next call misses again; an
\* entry that is new holds the non-empty list the call returned.
C10_CacheOnlyNonEmpty ==
    \A t \in Stats :
        LET l == tv[t]
            e == cache[CacheKey(t)]
        IN  /\ (pc[t] = "done" /\ (l.ret.kind # "ok" \/ l.ret.body.items = <<>>)) =>
                  /\ e.present => e = l.before
                  /\ ~l.before.present => ~Lookup(World, t).hit
            /\ (pc[t] # "idle" /\ e.present /\ e # l.before) =>
                  /\ pc[t] = "done" /\ l.ret.kind = "ok"
                  /\ l.ret.body.t = "list" /\ l.ret.body.items # <<>>
                  /\ e.value = l.ret.body

\* C10 witness: with the cache in use, a 200 answer that is no list has ended
\* the call with an empty result and the key has no entry.
C10_Witness ==
    \E t \in Stats :
        /\ ~no_cache /\ pc[t] = "done" /\ ~tv[t].hit
        /\ tv[t].last.kind = "ok" /\ tv[t].last.status = 200
        /\ tv[t].last.body.t = "obj"
        /\ tv[t].ret.body = JList(<<>>)
        /\ ~cache[CacheKey(t)].present

Repos == {t \in Tasks : tv[t].op = "repos"}

\* C11: list_repos pages through the user-account endpoint, with the
\* parameters it gave the organization endpoint, exactly when the organization
\* endpoint has failed with status 404, and then returns what that endpoint
\* gives (its cached value, else all its pages, else its exception); a
\* failure of the organization endpoint with any other status, or of any
\* other kind, is the outcome of list_repos.
C11_ReposFallback ==
    \A t \in Repos :
        LET l == tv[t]
            type == RepoType(l.include_forks)
            org == [endpoint |-> "orgs", type |-> type]
            user == [endpoint |-> "users", type |-> type]
            failed404 == l.caught.kind = "HTTPStatusError" /\ l.caught.status = 404
        IN
        /\ pc[t] # "idle" =>
              l.calls = IF failed404 THEN <<org, user>> ELSE <<org>>
        /\ (l.caught.kind # "none" /\ ~failed404) =>
              pc[t] = "done" /\ l.ret = l.caught
        /\ (pc[t] = "done" /\ ~failed404 /\ l.last.kind \notin {"ok", "none"}) =>
              l.ret = l.last
        /\ (pc[t] = "done" /\ failed404) =>
              IF l.hit
              THEN l.ret.kind = "ok" /\ l.ret.body = cache[UserKey(t)].value
              ELSE IF l.last.kind = "ok"
              THEN /\ l.ret.kind = "ok"
                   /\ l.ret.body = JList(ExpectedItems(l.pages, l.objPage))
              ELSE l.ret = l.last

\* C11 witness: the organization endpoint has answered 404 and list_repos has
\* returned the three pages of the user-account endpoint.
C11_Witness ==
    \E t \in Repos :
        /\ pc[t] = "done" /\ tv[t].ret.kind = "ok" /\ ~tv[t].hit
        /\ tv[t].caught.status = 404
        /\ Len(tv[t].calls) = 2
        /\ tv[t].pages = 3 /\ Len(tv[t].ret.body.items) = 6

Commits == {t \in Tasks : tv[t].op = "commits"}

\* C12: a list_commits call one of whose page requests has failed with status
\* 409 returns the empty list; a failure with any other status, or of any
\* other kind, is raised to the caller as it is.
C12_EmptyOn409 ==
    \A t \in Commits :
        LET l == tv[t] IN
        (pc[t] = "done" /\ l.last.kind \notin {"ok", "none"}) =>
            IF l.last.kind = "HTTPStatusError" /\ l.last.status = 409
            THEN l.ret.kind = "ok" /\ l.ret.body = JList(<<>>)
            ELSE l.ret = l.last

\* C12 witness: the second page request has failed with 409 and the call has
\* returned the empty list.
C12_Witness ==
    \E t \in Commits :
        /\ pc[t] = "done" /\ tv[t].reqs = 2
        /\ tv[t].last.kind = "HTTPStatusError" /\ tv[t].last.status = 409
        /\ tv[t].ret.kind = "ok" /\ tv[t].ret.body = JList(<<>>)

Cacheable ==
    {t \in Tasks : tv[t].op \in {"repos", "commits", "languages", "stats", "pulls"}}

\* The cache entry e holds a value that has not expired at time at.
Unexpired(e, at) == e.present /\ at - e.ts <= DEFAULT_TTL /\ e.value.t # "null"

\* Task t begins its call in this step and finds an unexpired value under
\* the key of the call.
HitStep(t) ==
    /\ pc[t] = "idle" /\ pc'[t] # "idle"
    /\ ~no_cache
    /\ Unexpired(cache[CacheKey(t)], now)

\* The call of task t is answered in this step without a request and without
\* a permit.
NoNetwork(t) ==
    /\ pc'[t] = "done"
    /\ tv'[t].reqs = 0
    /\ sem' = sem /\ waiters' = waiters
    /\ tv'[t].ret.kind = "ok"

\* The call of task t has missed the cache, its fetch has succeeded and the
\* cache has written what it was given.
Fetched(t) ==
    LET l == tv[t] IN
    /\ pc[t] = "done" /\ ~no_cache /\ ~l.hit /\ ~l.oserror
    /\ l.ret.kind = "ok"
    /\ l.op # "languages" => l.last.kind = "ok"

\* The value the fetch of task t has produced.
FetchedValue(t) ==
    IF tv[t].op \in Paginated THEN JList(tv[t].results) ELSE tv[t].ret.body

\* C13: a call that finds an unexpired value under its key returns that
\* value without a request and without a permit, and a call that has missed
\* and fetched successfully has left the fetched value under that key.
C13_CacheFirst ==
    [][\A t \in Cacheable :
          /\ HitStep(t) =>
                /\ NoNetwork(t)
                /\ tv'[t].ret.body = cache[CacheKey(t)].value
          /\ Fetched(t)' =>
                /\ cache'[CacheKey(t)].present
                /\ cache'[CacheKey(t)].value = FetchedValue(t)']_vars

\* C13, as the code has it: a call that finds an unexpired value under its
\* key returns that value (list_pull_requests: the items of it inside the
\* window) without a request and without a permit; a call that has missed and
\* fetched successfully has left the fetched value under the key of the
\* endpoint that answered (list_repos after a 404: the user-account endpoint),
\* unless it is an empty contributor-stats result.
C13_CacheFirstByEndpoint ==
    [][\A t \in Cacheable :
          /\ HitStep(t) =>
                /\ NoNetwork(t)
                /\ tv'[t].ret.body =
                      IF tv[t].op = "pulls"
                      THEN JList(Window(cache[CacheKey(t)].value.items,
                                        TextOf(tv[t].since), TextOf(tv[t].until)))
                      ELSE cache[CacheKey(t)].value
          /\ (Fetched(t)' /\ ~(tv'[t].op = "stats" /\ tv'[t].ret.body.items = <<>>)) =>
                /\ cache'[CurrentKey(World, t)'].present
                /\ cache'[CurrentKey(World, t)'].value = FetchedValue(t)']_vars

\* C13 witness: list_pull_requests has been answered from the cache, without
\* a request, with fewer items than the cached list holds.
C13_Witness ==
    \E t \in Cacheable :
        /\ tv[t].op = "pulls" /\ pc[t] = "done" /\ tv[t].hit /\ tv[t].reqs = 0
        /\ tv[t].since.known
        /\ Len(tv[t].ret.body.items) < Len(tv[t].before.value.items)

\* ------------------------------------------------ claims on the aggregator
\* The resolved repositories collect_and_update has finished with.
Done == {i \in 1..Len(collected) : collected[i].state # "pending"}

\* The resolved repositories whose RepoStats has been collected.
Surviving == {i \in 1..Len(collected) : collected[i].state = "stats"}

\* What the fetches of the i-th resolved repository end with.
OutcomesOf(i) == server.data[repos[i].name]

\* The fields of a RepoStats that are derived from the k-th fetch.
FieldsOf(k, stats) ==
    CASE k = 1 -> <<stats.total_commits, stats.commit_patterns>>
      [] k = 2 -> <<stats.languages>>
      [] k = 3 -> <<stats.contributors, stats.total_additions, stats.total_deletions,
                    stats.contributor_trends>>
      [] k = 4 -> <<stats.open_prs, stats.merged_prs, stats.pr_insights>>
      [] OTHER -> <<stats.open_issues, stats.issue_insights>>

\* The same fields computed from an empty list or an empty mapping.
FieldsOfEmpty(k) ==
    CASE k = 1 -> <<0, [NoCommitPatterns EXCEPT !.known = TRUE]>>
      [] k = 2 -> <<<<>>>>
      [] k = 3 -> <<<<>>, 0, 0, <<>>>>
      [] k = 4 -> <<0, 0, [NoPrInsights EXCEPT !.known = TRUE]>>
      [] OTHER -> <<0, [NoIssueInsights EXCEPT !.known = TRUE]>>

\* The outcomes the k-th fetch can succeed with.
SuccessesOf(k) ==
    {x \in (CASE k = 1 -> CommitsOutcomes
               [] k = 2 -> LanguagesOutcomes
               [] k = 3 -> ContributorsOutcomes
               [] k = 4 -> PrsOutcomes
               [] OTHER -> IssuesOutcomes) : x.kind = "ok"}

\* The runs in which no fetch fails and the fetches that succeed in o give
\* what they give in o.
WithoutFailure(o) ==
    LET alt(k) == IF o[k].kind = "ok" THEN {o[k]} ELSE SuccessesOf(k) IN
    alt(1) \X alt(2) \X alt(3) \X alt(4) \X alt(5)

\* C14: whichever of the five fetches fail, the collection of a repository
\* raises only if a fetch that succeeded gave a list with an element that is
\* no object; in the RepoStats the fields derived from a failed fetch are
\* those of an empty list or mapping, and the fields derived from a fetch
\* that succeeded are those of the run in which no fetch fails.
C14_FetchFailureIsolated ==
    \A i \in Done :
        LET o == OutcomesOf(i)
            stats == collected[i].stats
        IN
        /\ collected[i].state = "none" =>
              \E k \in {1, 3, 4, 5} : o[k].kind = "ok" /\ ~AllDicts(o[k].body.items)
        /\ collected[i].state = "stats" =>
              /\ \A k \in 1..5 :
                    o[k].kind # "ok" => FieldsOf(k, stats) = FieldsOfEmpty(k)
              /\ \A o2 \in WithoutFailure(o) :
                    LET c2 == CollectRepoStats(repos[i].name, args.since, args.until,
                                               repos[i], o2)
                    IN  ~c2.raised =>
                           \A k \in 1..5 :
                               o[k].kind = "ok" =>
                                   FieldsOf(k, stats) = FieldsOf(k, c2.stats)

\* C14 witness: the commits and the contributor statistics could not be
\* fetched, and the RepoStats holds the languages and the pull requests of
\* the other fetches.
C14_Witness ==
    \E i \in Surviving :
        /\ OutcomesOf(i)[1].kind # "ok" /\ OutcomesOf(i)[3].kind # "ok"
        /\ collected[i].stats.total_commits = 0
        /\ Len(collected[i].stats.languages) = 2
        /\ collected[i].stats.merged_prs = 2

\* The collection of the i-th resolved repository, taken alone.
Alone(i) ==
    CollectRepoStats(repos[i].name, args.since, args.until, repos[i], OutcomesOf(i))

\* The resolved repositories whose collection raises.
Failing == {i \in 1..Len(repos) : Alone(i).raised}

\* How often name occurs in the sequence of names.
Occurrences(name, names) == Cardinality({k \in 1..Len(names) : names[k] = name})

\* The RepoStats of the resolved repositories whose collection does not
\* raise, each collected alone, in the order of the repository list.
StatsOfOthers ==
    LET idx == SelectSeq([i \in 1..Len(repos) |-> i], LAMBDA i : i \notin Failing) IN
    [k \in 1..Len(idx) |-> Alone(idx[k]).stats]

\* C15: whichever repositories fail to be collected, aggregate_org_report
\* raises nothing of theirs and returns a report; the name of each failing
\* repository is in failed_repos once, no other name is, and but for
\* failed_repos the report is the one of the repository set without them.
C15_RepoFailureIsolated ==
    /\ phase = "raised" => server.list.kind # "ok"
    /\ phase = "returned" =>
          /\ report.kind = "ok"
          /\ \A i \in Failing :
                Occurrences(repos[i].name, report.body.failed_repos) = 1
          /\ \A k \in 1..Len(report.body.failed_repos) :
                \E i \in Failing : repos[i].name = report.body.failed_repos[k]
          /\ [report.body EXCEPT !.failed_repos = <<>>]
                = OrgReportOf(StatsOfOthers, <<>>, args)

\* C15 witness: of two repositories one has failed and the report holds the
\* five commits of the other.
C15_Witness ==
    /\ phase = "returned" /\ Len(repos) = 2
    /\ Cardinality(Failing) = 1
    /\ Len(report.body.failed_repos) = 1
    /\ report.body.total_repos = 1 /\ report.body.total_commits = 5

\* C16: in a report total_repos is the length of repos, and every resolved
\* repository is either one RepoStats of repos or one name of failed_repos,
\* never both, so that the two lengths add up to the size of the resolved set.
C16_EveryRepoAccounted ==
    phase = "returned" =>
        LET r == report.body
            names == [k \in 1..Len(r.repos) |-> r.repos[k].name]
        IN
        /\ r.total_repos = Len(r.repos)
        /\ r.total_repos + Len(r.failed_repos) = Len(repos)
        /\ \A i \in 1..Len(repos) :
              Occurrences(repos[i].name, names)
                  + Occurrences(repos[i].name, r.failed_repos) = 1

\* C16 witness: a report over two resolved repositories, one collected and
\* one failed.
C16_Witness ==
    /\ phase = "returned" /\ Len(repos) = 2
    /\ report.body.total_repos = 1
    /\ Len(report.body.failed_repos) = 1

\* C17: when client.list_repos raises, aggregate_org_report raises the same
\* exception: no repository is resolved, no collection is begun, nothing is
\* recorded as failed and no report is returned.
C17_ResolutionFailurePropagates ==
    (args.repo = "" /\ server.list.kind # "ok") =>
        /\ phase \in {"start", "listing", "raised"}
        /\ repos = <<>> /\ collected = <<>> /\ failed_repos = <<>>
        /\ phase = "raised" => report = server.list
        /\ phase # "raised" => report = NoRet

\* C17 witness: list_repos has raised an HTTPStatusError for a 500 and so has
\* aggregate_org_report.
C17_Witness ==
    /\ phase = "raised" /\ listed = 1
    /\ report.kind = "HTTPStatusError" /\ report.status = 500

\* The names of the repositories under collection, in order.
ResolvedNames == [i \in 1..Len(repos) |-> repos[i].name]

\* C18: with a repository name given, list_repos is never called and the
\* repositories collected are that one repository, whatever the exclusion
\* set; with no name given they are the listed repositories whose names are
\* not in the exclusion set.
C18_ResolvedSet ==
    /\ args.repo # "" =>
          /\ listed = 0
          /\ phase \in {"collecting", "returned"} => ResolvedNames = <<args.repo>>
    /\ (args.repo = "" /\ phase \in {"collecting", "returned"}) =>
          /\ listed = 1
          /\ {ResolvedNames[i] : i \in 1..Len(repos)}
                = {server.list.body.items[k].name :
                      k \in 1..Len(server.list.body.items)} \ args.exclude_repos
          /\ Len(repos) = Cardinality({server.list.body.items[k].name :
                      k \in 1..Len(server.list.body.items)} \ args.exclude_repos)

\* The sum of f over its domain, in no particular order.
RECURSIVE SumOver(_)
SumOver(f) ==
    IF DOMAIN f = {}
    THEN 0
    ELSE LET x == CHOOSE x \in DOMAIN f : TRUE IN
         f[x] + SumOver([y \in DOMAIN f \ {x} |-> f[y]])

\* The sum of a field over the collected RepoStats.
SumOfField(key) == SumOver([i \in Surviving |-> collected[i].stats[key]])

\* C19: each scalar total of a report is the sum of the field over the set
\* of collected RepoStats, and archived_repos is the number of them that
\* are archived, in whatever order the repositories were listed.
C19_ScalarTotals ==
    phase = "returned" =>
        LET r == report.body IN
        /\ r.total_commits = SumOfField("total_commits")
        /\ r.total_additions = SumOfField("total_additions")
        /\ r.total_deletions = SumOfField("total_deletions")
        /\ r.total_open_prs = SumOfField("open_prs")
        /\ r.total_merged_prs = SumOfField("merged_prs")
        /\ r.total_open_issues = SumOfField("open_issues")
        /\ r.total_stars = SumOfField("stars")
        /\ r.total_forks = SumOfField("forks")
        /\ r.archived_repos =
              Cardinality({i \in Surviving : collected[i].stats.is_archived})

\* C19 witness: two repositories collected, the second listed first, with
\* ten commits, fifteen stars and one archived repository between them.
C19_Witness ==
    /\ phase = "returned" /\ Cardinality(Surviving) = 2
    /\ repos[1].name = AllNames[2]
    /\ report.body.total_commits = 10
    /\ report.body.total_stars = 15
    /\ report.body.archived_repos = 1

\* The per-repository contributor records: (repository, position) pairs.
Records ==
    UNION {{<<i, k>> : k \in 1..Len(collected[i].stats.contributors)} :
              i \in Surviving}

RecordAt(x) == collected[x[1]].stats.contributors[x[2]]

\* The sum of a field over the per-repository records of a username.
SumForUser(username, key) ==
    SumOver([x \in {y \in Records : RecordAt(y).username = username} |->
                RecordAt(x)[key]])

\* C20: with no filter on, the contributors of a report are one record for
\* each username of a per-repository record and no other, and the commits,
\* additions and deletions of the record are the sums over the
\* per-repository records of that username, in whatever order the
\* repositories were listed.
C20_ContributorsMerged ==
    (phase = "returned" /\ ~args.exclude_bots /\ args.min_commits = 0) =>
        LET cs == report.body.contributors IN
        /\ \A x \in Records :
              Cardinality({k \in 1..Len(cs) :
                              cs[k].username = RecordAt(x).username}) = 1
        /\ \A k \in 1..Len(cs) :
              /\ \E x \in Records : RecordAt(x).username = cs[k].username
              /\ cs[k].commits = SumForUser(cs[k].username, "commits")
              /\ cs[k].additions = SumForUser(cs[k].username, "additions")
              /\ cs[k].deletions = SumForUser(cs[k].username, "deletions")

\* C20 witness: alice has contributed to both repositories and her record
\* holds the sums, five commits, sixteen additions, seven deletions.
C20_Witness ==
    /\ phase = "returned" /\ ~args.exclude_bots /\ args.min_commits = 0
    /\ Cardinality(Surviving) = 2
    /\ \E k \in 1..Len(report.body.contributors) :
          report.body.contributors[k] =
              [username |-> "alice", commits |-> 5, additions |-> 16, deletions |-> 7]

\* The per-repository language records: (repository, position) pairs.
LanguageRecords ==
    UNION {{<<i, k>> : k \in 1..Len(collected[i].stats.languages)} :
              i \in Surviving}

LanguageAt(x) == collected[x[1]].stats.languages[x[2]]

\* The bytes of a language summed over the collected repositories.
BytesOf(language) ==
    SumOver([x \in {y \in LanguageRecords : LanguageAt(y).language = language} |->
                LanguageAt(x).bytes])

\* The bytes of every language of every collected repository.
GrandTotal == SumOver([x \in LanguageRecords |-> LanguageAt(x).bytes])

\* C21: the languages of a report are one entry for each language name of a
\* collected repository and no other; the bytes of an entry are the sum of
\* the language's bytes over the repositories, the entries are in
\* non-increasing order of bytes, and the percentage of an entry is
\* round(bytes / grand total * 100, 1), or 0 when the grand total is 0.
C21_LanguagesMerged ==
    phase = "returned" =>
        LET ls == report.body.languages IN
        /\ \A x \in LanguageRecords :
              Cardinality({k \in 1..Len(ls) :
                              ls[k].language = LanguageAt(x).language}) = 1
        /\ \A k \in 1..Len(ls) :
              /\ \E x \in LanguageRecords : LanguageAt(x).language = ls[k].language
              /\ ls[k].bytes = BytesOf(ls[k].language)
              /\ ls[k].percentage =
                    IF GrandTotal = 0 THEN 0 ELSE Round1(ls[k].bytes * 100, GrandTotal)
        /\ \A k \in 1..(Len(ls) - 1) : ls[k].bytes >= ls[k + 1].bytes

\* C21 witness: Python is a language of both repositories; of the 96 bytes
\* its 65 are 67.7 percent, the 30 of JS 31.2 (from 31.25) and the 1 of Go 1.0.
C21_Witness ==
    /\ phase = "returned" /\ Cardinality(Surviving) = 2
    /\ report.body.languages =
          <<[language |-> "Python", bytes |-> 65, percentage |-> 677],
            [language |-> "JS", bytes |-> 30, percentage |-> 312],
            [language |-> "Go", bytes |-> 1, percentage |-> 10]>>

\* C21, the grand total of 0: two languages without bytes, each at 0 percent.
C21_ZeroTotal ==
    /\ phase = "returned" /\ Len(report.body.languages) = 2
    /\ GrandTotal = 0
    /\ \A k \in 1..2 : report.body.languages[k].percentage = 0

\* The pull requests fetched for the i-th resolved repository.
PullsOf(i) == ItemsOf(OrEmptyList(OutcomesOf(i)[4]))

\* The mean of the per-repository averages weighted by the number of samples
\* each was computed from, rounded to one decimal (in tenths); null when no
\* repository has a sample.  samples[i] are the latencies of repository i.
SampleWeightedMean(avg, samples) ==
    LET having == {i \in Surviving : collected[i].stats.pr_insights[avg].known}
        n == SumOver([i \in having |-> Len(samples[i])])
    IN  IF n = 0
        THEN None
        ELSE Some(RoundDiv(SumOver([i \in having |->
                                       collected[i].stats.pr_insights[avg].v
                                           * Len(samples[i])]),
                           n))

\* C22: the average merge latency of a report is the mean of the
\* per-repository averages, each weighted by the number of merge latencies
\* it was computed from, rounded to one decimal, and null when no repository
\* has a merge latency; the average close latency likewise.
C22_SampleWeightedAverage ==
    phase = "returned" =>
        /\ report.body.pr_insights.avg_merge_hours =
              SampleWeightedMean("avg_merge_hours",
                                 [i \in Surviving |-> MergeHours(PullsOf(i))])
        /\ report.body.pr_insights.avg_close_hours =
              SampleWeightedMean("avg_close_hours",
                                 [i \in Surviving |-> CloseHours(PullsOf(i))])

\* The orders in which n repositories can be folded into a merge.
Orders(n) ==
    {f \in [1..n -> 1..n] : \A x, y \in 1..n : x # y => f[x] # f[y]}

\* The trends merged from the collected repositories folded in order f.
TrendsFolded(f) ==
    LET stats == RepoStatsList(collected)
        m == MergeTrends(<<>>, Chain([k \in 1..Len(stats) |-> stats[f[k]]],
                                     "contributor_trends"))
    IN  {m[k] : k \in 1..Len(m)}

\* C23: the merged trend of every username (first and last active week,
\* total weeks, active weeks) is the same in whatever order the collected
\* repositories are folded into the merge.
C23_TrendMergeOrderFree ==
    phase = "returned" =>
        \A f \in Orders(Len(RepoStatsList(collected))) :
            TrendsFolded(f) =
                {report.body.contributor_trends[k] :
                    k \in 1..Len(report.body.contributor_trends)}

\* The names of the repositories whose collection raises, in the order of
\* the repository list.
FailingInListOrder ==
    LET idx == SelectSeq([i \in 1..Len(repos) |-> i], LAMBDA i : i \in Failing) IN
    [k \in 1..Len(idx) |-> repos[idx[k]].name]

\* C24: the report is a function of the repository list and of what the
\* fetches answer: every field, the order of repos and of failed_repos
\* included, is the same in whatever order the collections complete.
C24_CompletionOrderFree ==
    phase = "returned" =>
        report.body = OrgReportOf(StatsOfOthers, FailingInListOrder, args)

\* The usernames of the per-repository contributor records.
MergedUsernames == {RecordAt(x).username : x \in Records}

\* The usernames of the payloads that are bots: they end with "[bot]" or are
\* a name of the known-bot list, whatever the case of their letters.
\* my-bot-project, which only holds the word, is none.
BotUsernames == {"dependabot[bot]", "SomeBot[bot]", "Renovate"}

\* C25: the contributors of a report are the merged contributors, one
\* record each with the merged sums, but for the bots when exclude_bots is
\* set and for those with fewer than min_commits merged commits when
\* min_commits > 0; with both options off none is dropped.
C25_ContributorFilter ==
    phase = "returned" =>
        LET cs == report.body.contributors
            expected ==
                {u \in MergedUsernames :
                    /\ args.exclude_bots => u \notin BotUsernames
                    /\ args.min_commits > 0 =>
                          SumForUser(u, "commits") >= args.min_commits}
        IN
        /\ {cs[k].username : k \in 1..Len(cs)} = expected
        /\ Len(cs) = Cardinality(expected)
        /\ \A k \in 1..Len(cs) : cs[k].commits = SumForUser(cs[k].username, "commits")

\* C25 witness: with exclude_bots set and min_commits = 2, of the six
\* merged contributors of two repositories alice (5 commits) and
\* my-bot-project (3 commits) are left; bob has 1 commit, the others are bots.
C25_Witness ==
    /\ phase = "returned" /\ args.exclude_bots /\ args.min_commits = 2
    /\ Cardinality(MergedUsernames) = 6
    /\ {report.body.contributors[k].username :
           k \in 1..Len(report.body.contributors)} = {"alice", "my-bot-project"}

\* The usernames of a list of contributor or trend records.
UsernamesOf(records) == {records[k].username : k \in 1..Len(records)}

\* C26: every username of the trends of a report is a username of its
\* contributors, whatever exclude_bots and min_commits are.
C26_TrendsAmongContributors ==
    phase = "returned" =>
        UsernamesOf(report.body.contributor_trends)
            \subseteq UsernamesOf(report.body.contributors)

\* C26 witness: bots are excluded and two commits are asked for; dependabot
\* and bob have contributed but alice and my-bot-project alone have a trend.
C26_Witness ==
    /\ phase = "returned" /\ args.exclude_bots /\ args.min_commits = 2
    /\ {"dependabot[bot]", "bob"} \subseteq MergedUsernames
    /\ UsernamesOf(report.body.contributor_trends) = {"alice", "my-bot-project"}

\* The key the contributors are to be ordered by: additions, deletions,
\* lines (additions plus deletions) when sort_by names one of them, commits
\* when it names commits or anything else.
SelectedKey(c) ==
    IF args.sort_by = "additions" THEN c.additions
    ELSE IF args.sort_by = "deletions" THEN c.deletions
    ELSE IF args.sort_by = "lines" THEN c.additions + c.deletions
    ELSE c.commits

\* C27: the contributors of a report are in non-increasing order of the
\* selected key.
C27_ContributorsSorted ==
    phase = "returned" =>
        \A k \in 1..(Len(report.body.contributors) - 1) :
            SelectedKey(report.body.contributors[k])
                >= SelectedKey(report.body.contributors[k + 1])

\* C27 witness: sorted by additions, alice with 10 additions and 3 commits
\* comes before Renovate with 2 additions and 5 commits.
C27_Witness ==
    /\ phase = "returned" /\ args.sort_by = "additions"
    /\ Len(report.body.contributors) >= 2
    /\ report.body.contributors[1].username = "alice"
    /\ report.body.contributors[2].username = "Renovate"
    /\ report.body.contributors[1].commits < report.body.contributors[2].commits

\* C27, a key that is none of the four: the order is that of the commits,
\* Renovate with 5 before alice with 3.
C27_UnrecognisedKey ==
    /\ phase = "returned" /\ args.sort_by = "name"
    /\ Len(report.body.contributors) >= 2
    /\ report.body.contributors[1].commits = 5
    /\ report.body.contributors[2].commits = 3

\* The contributor statistics fetched for the i-th resolved repository.
StatisticsOf(i) == ItemsOf(OrEmptyList(OutcomesOf(i)[3]))

\* The weeks of a contributor inside the requested window.
WeeksInWindow(c) ==
    {k \in 1..Len(c.weeks) :
        InWeekWindow(c.weeks[k].w, TimestampOf(args.since), TimestampOf(args.until))}

\* The contributor has an author but no commit, addition or deletion in
\* the weeks of the window.
ZeroInWindow(c) ==
    /\ c.author # ""
    /\ SumOver([k \in WeeksInWindow(c) |-> c.weeks[k].c]) = 0
    /\ SumOver([k \in WeeksInWindow(c) |-> c.weeks[k].a]) = 0
    /\ SumOver([k \in WeeksInWindow(c) |-> c.weeks[k].d]) = 0

\* The collection of the i-th repository had the contributors with nothing
\* in the window been absent from the statistics.
WithoutZeros(i) ==
    CollectRepoStats(repos[i].name, args.since, args.until, repos[i],
                     [OutcomesOf(i) EXCEPT ![3] =
                         Payload(JList(SelectSeq(StatisticsOf(i),
                                                 LAMBDA c : ~ZeroInWindow(c))))])

\* C28: a contributor with no commit, addition or deletion in the weeks of
\* the window is not in the contributors of the RepoStats, and the
\* contributors, total_additions and total_deletions of the RepoStats are
\* those of the statistics without such contributors.
C28_ZeroContributorSkipped ==
    \A i \in Surviving :
        LET stats == collected[i].stats
            raw == StatisticsOf(i)
        IN
        /\ \A k \in 1..Len(raw) :
              (raw[k].dict /\ ZeroInWindow(raw[k])) =>
                  raw[k].author \notin UsernamesOf(stats.contributors)
        /\ stats.contributors = WithoutZeros(i).stats.contributors
        /\ stats.total_additions = WithoutZeros(i).stats.total_additions
        /\ stats.total_deletions = WithoutZeros(i).stats.total_deletions

\* C28 witness: the window begins with the second week, in which bob, like
\* carol, has nothing; alice alone is a contributor, with the 2 additions
\* and 3 deletions of her second and third week.
C28_Witness ==
    /\ args.since = At(WeekSeconds)
    /\ \E i \in Surviving :
          /\ \E k \in 1..Len(StatisticsOf(i)) :
                StatisticsOf(i)[k].author = "bob" /\ ZeroInWindow(StatisticsOf(i)[k])
          /\ collected[i].stats.contributors =
                <<[username |-> "alice", commits |-> 2, additions |-> 2, deletions |-> 3]>>
          /\ collected[i].stats.total_additions = 2
          /\ collected[i].stats.total_deletions = 3

\* ------------------------------------------------ claims on the client (2)
\* The calls of list_pull_requests that have returned a list.
PullsReturned ==
    {t \in Tasks : tv[t].op = "pulls" /\ pc[t] = "done" /\ tv[t].ret.kind = "ok"}

\* The unfiltered list of the call of task t: what the cache held for it,
\* or the pages it has fetched.
Unfiltered(t) == IF tv[t].hit THEN tv[t].before.value.items ELSE tv[t].results

\* The creation time lies in the window of the call of task t.
CreatedInWindow(created, t) ==
    /\ tv[t].since.known => tv[t].since.v <= created
    /\ tv[t].until.known => created <= tv[t].until.v

\* C29: list_pull_requests returns the pull requests of the unfiltered list
\* created at or after since and at or before until, a missing bound being
\* no bound, in the order of that list, be the list fetched or cached.
C29_PullsInWindow ==
    \A t \in PullsReturned :
        tv[t].ret.body.items =
            SelectSeq(Unfiltered(t), LAMBDA created : CreatedInWindow(created, t))

\* C29 witness: of two fetched pages list_pull_requests has returned the
\* three pull requests created from minute 12 to minute 22.
C29_Witness ==
    \E t \in PullsReturned :
        /\ ~tv[t].hit /\ tv[t].reqs = 2
        /\ tv[t].since = Some(12) /\ tv[t].until = Some(22)
        /\ tv[t].results = <<11, 12, 21, 22>>
        /\ tv[t].ret.body.items = <<12, 21, 22>>

\* C29, from the cache: the cached list cut to the same window.
C29_FromCache ==
    \E t \in PullsReturned :
        /\ tv[t].hit /\ tv[t].reqs = 0
        /\ tv[t].since = Some(12) /\ tv[t].until = Some(22)
        /\ tv[t].ret.body.items = <<12>>

\* ------------------------------------------- claims on the aggregator (2)
\* C30: merged_prs of a RepoStats is the number of fetched pull requests
\* with a merge timestamp, whatever their state, open_prs the number of
\* those without one that are in state open; the others are counted in
\* neither, and the two counts together do not exceed the number fetched.
C30_PrBuckets ==
    \A i \in Surviving :
        LET prs == PullsOf(i)
            stats == collected[i].stats
        IN
        /\ stats.merged_prs =
              Cardinality({k \in 1..Len(prs) : prs[k].merged_at # NoTime})
        /\ stats.open_prs =
              Cardinality({k \in 1..Len(prs) :
                              prs[k].merged_at = NoTime /\ prs[k].state = "open"})
        /\ stats.merged_prs + stats.open_prs <= Len(prs)

\* C30 witness: of four pull requests three have a merge timestamp, one of
\* them in state open, and one is closed unmerged: 3 merged, 0 open.
C30_Witness ==
    \E i \in Surviving :
        /\ Len(PullsOf(i)) = 4
        /\ \E k \in 1..4 :
              PullsOf(i)[k].state = "open" /\ PullsOf(i)[k].merged_at # NoTime
        /\ collected[i].stats.merged_prs = 3
        /\ collected[i].stats.open_prs = 0

\* The report of a run that has returned one without any RepoStats: the
\* resolved set was empty, or every collection failed.
NoData == phase = "returned" /\ report.body.repos = <<>>

\* The numeric totals of the report are 0 and its lists are empty.
TotalsZero ==
    LET r == report.body IN
    /\ r.total_repos = 0 /\ r.total_commits = 0
    /\ r.total_additions = 0 /\ r.total_deletions = 0
    /\ r.total_open_prs = 0 /\ r.total_merged_prs = 0 /\ r.total_open_issues = 0
    /\ r.total_stars = 0 /\ r.total_forks = 0 /\ r.archived_repos = 0
    /\ r.languages = <<>> /\ r.contributors = <<>> /\ r.contributor_trends = <<>>

\* C31 as stated: without data every numeric total of the OrgReport is 0 and
\* every list or mapping is there and empty, the histograms, the label
\* distribution and the top authors and reporters among them.
C31_EmptyReportComplete ==
    NoData =>
        LET r == report.body IN
        /\ TotalsZero
        /\ r.commit_patterns.known
        /\ r.commit_patterns.hourly_distribution = <<>>
        /\ r.commit_patterns.weekday_distribution = <<>>
        /\ r.pr_insights.known /\ r.pr_insights.top_authors = <<>>
        /\ r.issue_insights.known
        /\ r.issue_insights.label_distribution = <<>>
        /\ r.issue_insights.top_reporters = <<>>

\* C31: without data every numeric total of the OrgReport is 0, languages,
\* contributors, repos and contributor_trends are empty lists and
\* failed_repos names every resolved repository; commit_patterns,
\* pr_insights and issue_insights are None, so that the report has no
\* histogram, no label distribution and no top authors or reporters.
C31_EmptyReportWithoutInsights ==
    NoData =>
        LET r == report.body IN
        /\ TotalsZero
        /\ Len(r.failed_repos) = Len(repos)
        /\ r.commit_patterns = NoCommitPatterns
        /\ r.pr_insights = NoPrInsights
        /\ r.issue_insights = NoIssueInsights

\* C31 witness: the collections of both repositories of an account have
\* failed and the report has been returned.
C31_Witness ==
    /\ NoData
    /\ Len(repos) = 2 /\ Len(report.body.failed_repos) = 2

\* The report of an account without repositories has been returned.
C31_EmptyAccount == NoData /\ repos = <<>> /\ args.repo = ""

\* C32: a collection ends only when each of its five fetches is done; a
\* fetch in flight stays in flight until it is done, whatever ends around
\* it: the end of a fetch, with a result or an exception, changes no other
\* fetch, and the end of a collection, with a RepoStats or a failure, changes
\* no fetch and no other collection; the report is built only when every
\* collection has ended.
C32_NoSiblingCancelled ==
    [][/\ \A i \in 1..Len(collected') :
              collected'[i].state # "pending" =>
                  \A k \in Fetches : fetching'[i][k] = "done"
       /\ \A i \in 1..Len(fetching) : \A k \in Fetches :
              /\ fetching[i][k] = "running" =>
                    fetching'[i][k] \in {"running", "done"}
              /\ fetching[i][k] = "done" => fetching'[i][k] = "done"
              /\ (fetching[i][k] = "running" /\ fetching'[i][k] = "done") =>
                    /\ \A j \in 1..Len(fetching) : \A m \in Fetches :
                           <<j, m>> # <<i, k>> => fetching'[j][m] = fetching[j][m]
                    /\ collected' = collected
       /\ \A i \in 1..Len(collected) :
              collected'[i] # collected[i] =>
                  /\ fetching' = fetching
                  /\ \A j \in 1..Len(collected) :
                         j # i => collected'[j] = collected[j]
       /\ (phase = "collecting" /\ phase' = "returned") =>
              \A i \in 1..Len(collected) :
                  /\ collected[i].state # "pending"
                  /\ \A k \in Fetches : fetching[i][k] = "done"]_vars

\* C32 witness: the collection of the first repository has failed while the
\* second has a fetch that has raised and another still in flight.
C32_Witness ==
    /\ phase = "collecting" /\ Len(repos) >= 2
    /\ collected[1].state = "none"
    /\ collected[2].state = "pending"
    /\ \E k, m \in Fetches :
          /\ fetching[2][k] = "done" /\ OutcomesOf(2)[k].kind # "ok"
          /\ fetching[2][m] = "running"

\* The collection of a repository two of whose fetches have raised has ended
\* with a RepoStats.
C32_Survived ==
    \E i \in Surviving :
        /\ fetching[i] = [k \in Fetches |-> "done"]
        /\ Cardinality({k \in Fetches : OutcomesOf(i)[k].kind # "ok"}) = 2

\* ---------------------------------------------------- claims on the client (3)
\* What a quota header that is absent or a number leaves in the field old of
\* the Rate Governor.
Recorded(header, old) == IF header.h = "num" THEN Some(header.v) ELSE old

\* C33: a request in flight has a permit taken from the pool, and whatever
\* answers it, _get ends as follows: a response whose quota headers are
\* absent or numbers is recorded in the Rate Governor, whatever its status,
\* and only then is a 4xx/5xx raised as an HTTPStatusError of that status,
\* while a failure of the transport leaves the rate state as it was and is
\* raised as it is.
C33_UpdateBeforeRaise ==
    \A t \in Tasks :
        pc[t] = "in_flight" =>
            /\ sem + Cardinality(Holders) = Concurrency
            /\ \A tr \in Answers(World, t) :
                  LET g == GetReturn(World, tr) IN
                  /\ tr.kind # "response" =>
                        /\ g.w.remaining = remaining /\ g.w.reset_at = reset_at
                        /\ g.ret.kind = tr.kind
                  /\ (/\ tr.kind = "response"
                      /\ tr.rl_remaining.h # "bad" /\ tr.rl_reset.h # "bad") =>
                        /\ g.w.remaining = Recorded(tr.rl_remaining, remaining)
                        /\ g.w.reset_at = Recorded(tr.rl_reset, reset_at)
                        /\ g.ret.kind =
                              IF IsSuccess(tr.status) THEN "ok" ELSE "HTTPStatusError"
                        /\ g.ret.status = tr.status

\* C33 witness: the one request made so far was answered 404 with quota
\* headers; the call has raised the HTTPStatusError and the Rate Governor
\* holds the quota of that answer.
C33_Witness ==
    \E t \in Tasks :
        /\ pc[t] = "done" /\ tv[t].reqs = 1
        /\ tv[t].ret.kind = "HTTPStatusError" /\ tv[t].ret.status = 404
        /\ \A u \in Tasks \ {t} : tv[u].reqs = 0
        /\ remaining = Some(Threshold) /\ reset_at.known

\* The delay of the a-th backoff sleep of a call (a = 1, 2, ...).
Schedule(a) == IF a <= 4 THEN <<2, 4, 8, 16>>[a] ELSE 30

\* C34: the a-th sleep of get_contributor_stats lasts 2, 4, 8, 16 and from the
\* fifth on 30 seconds; a sleep begins exactly after a 202 on an attempt that
\* is not the last, its timer set that many seconds ahead, and ends no
\* earlier; a call that ends on a 202 has made retries requests and taken
\* retries - 1 sleeps, none after the last attempt.
C34_BackoffSchedule ==
    [][\A t \in Tasks :
          tv'[t].op = "stats" =>
              LET l == tv'[t] IN
              /\ \A a \in 1..Len(l.slept) : l.slept[a] = Schedule(a)
              /\ Len(l.slept) = l.attempt + (IF pc'[t] = "backoff" THEN 1 ELSE 0)
              /\ (pc'[t] = "backoff" /\ pc[t] # "backoff") =>
                    /\ l.last.status = 202
                    /\ l.attempt < l.retries - 1
                    /\ wake'[t] = now' + Schedule(l.attempt + 1)
              /\ (pc[t] = "backoff" /\ pc'[t] # "backoff") =>
                    /\ now >= wake[t]
                    /\ l.attempt = tv[t].attempt + 1
              /\ (l.last.status = 202 /\ l.last.kind \in {"ok", "HTTPStatusError"}) =>
                    IF l.attempt < l.retries - 1
                    THEN pc'[t] = "backoff"
                    ELSE /\ pc'[t] = "done"
                         /\ l.reqs = l.retries
                         /\ Len(l.slept) = l.retries - 1]_vars

\* C34 witness: a call with the default eight retries has been answered 202
\* eight times and has slept 2, 4, 8, 16, 30, 30 and 30 seconds.
C34_Witness ==
    \E t \in Tasks :
        /\ tv[t].op = "stats" /\ pc[t] = "done"
        /\ tv[t].retries = DefaultRetries /\ tv[t].reqs = DefaultRetries
        /\ tv[t].last.status = 202
        /\ tv[t].slept = <<2, 4, 8, 16, 30, 30, 30>>

\* ------------------------------------------- claims on the aggregator (3)
\* A bound of the window is given: a text that is a time.
Given(text) == text.set /\ text.iso

\* The weekly record is outside the window of the call.
Excluded(wk) ==
    \/ Given(args.since) /\ wk.w + 7 * 86400 <= args.since.v
    \/ Given(args.until) /\ wk.w > args.until.v

\* The records of the list that are inside the window, and those of them
\* with a commit, an addition or a deletion.
Included(weeks) == {m \in 1..Len(weeks) : ~Excluded(weeks[m])}
ActiveIncluded(weeks) ==
    {m \in Included(weeks) : weeks[m].c > 0 \/ weeks[m].a > 0 \/ weeks[m].d > 0}

\* C35: a weekly record is left out exactly when since is given and the
\* week's seven days end at or before it, or until is given and the week
\* starts after it.  For each author of the statistics the commits,
\* additions and deletions of the RepoStats are the sums over the other
\* weeks (and the author is absent when all three are 0), and the trend of
\* the author counts the active ones among the same weeks, from the first to
\* the last of them (and is absent when there is none).
C35_WeekWindow ==
    \A i \in Surviving :
        LET stats == collected[i].stats
            raw == StatisticsOf(i)
        IN
        \A k \in 1..Len(raw) :
            raw[k].author # "" =>
                LET weeks == raw[k].weeks
                    c == SumOver([m \in Included(weeks) |-> weeks[m].c])
                    a == SumOver([m \in Included(weeks) |-> weeks[m].a])
                    d == SumOver([m \in Included(weeks) |-> weeks[m].d])
                    mine == {x \in 1..Len(stats.contributors) :
                                stats.contributors[x].username = raw[k].author}
                    trends == {x \in 1..Len(stats.contributor_trends) :
                                  stats.contributor_trends[x].username = raw[k].author}
                    starts == {weeks[m].w : m \in ActiveIncluded(weeks)}
                IN
                /\ IF c = 0 /\ a = 0 /\ d = 0
                   THEN mine = {}
                   ELSE /\ Cardinality(mine) = 1
                        /\ \A x \in mine :
                              /\ stats.contributors[x].commits = c
                              /\ stats.contributors[x].additions = a
                              /\ stats.contributors[x].deletions = d
                /\ IF starts = {}
                   THEN trends = {}
                   ELSE /\ Cardinality(trends) = 1
                        /\ \A x \in trends :
                              LET t == stats.contributor_trends[x] IN
                              /\ t.active_weeks = Cardinality(ActiveIncluded(weeks))
                              /\ \E w1 \in starts :
                                    /\ \A w2 \in starts : w1 <= w2
                                    /\ t.first_active_week = DateOf(w1)
                              /\ \E w1 \in starts :
                                    /\ \A w2 \in starts : w1 >= w2
                                    /\ t.last_active_week = DateOf(w1)

\* C35 witness: since and until are both the start of the second week: the
\* first week ends at since and the third starts after until, so that alice
\* has the commit and the two additions of her second week alone, and bob,
\* with nothing in it, is absent.
C35_Witness ==
    /\ args.since = At(WeekSeconds) /\ args.until = At(WeekSeconds)
    /\ \E i \in Surviving :
          /\ Len(StatisticsOf(i)) = 4
          /\ collected[i].stats.contributors =
                <<[username |-> "alice", commits |-> 1, additions |-> 2, deletions |-> 0]>>
          /\ Len(collected[i].stats.contributor_trends) = 1
          /\ collected[i].stats.contributor_trends[1].active_weeks = 1

\* The commits fetched for the i-th resolved repository.
CommitsOf(i) == ItemsOf(OrEmptyList(OutcomesOf(i)[1]))

\* The sum of the nine type counts of a CommitPatternStats, and the sum of
\* the counts of a histogram.
TypeSum(p) ==
    p.feat + p.fix + p.refactor + p.docs + p.test + p.chore + p.style + p.ci + p.other
HistogramSum(h) == SumOver([x \in 1..Len(h) |-> h[x].count])

\* The type counts add up to total and the two histograms have the same
\* sum, which is at most total.
Partitioned(p) ==
    /\ TypeSum(p) = p.total
    /\ HistogramSum(p.hourly_distribution) = HistogramSum(p.weekday_distribution)
    /\ HistogramSum(p.hourly_distribution) <= p.total

\* C36: in every RepoStats the nine type counts of the commit patterns add
\* up to total, which is the number of commits fetched, and the hourly and
\* weekday histograms have the same sum, at most total; the merged pattern of
\* the report has the same properties, its total being the number of commits
\* of all the RepoStats.
C36_TypesPartitionCommits ==
    /\ \A i \in Surviving :
          LET p == collected[i].stats.commit_patterns IN
          /\ p.known
          /\ p.total = Len(CommitsOf(i))
          /\ Partitioned(p)
    /\ (phase = "returned" /\ report.body.repos # <<>>) =>
          LET p == report.body.commit_patterns IN
          /\ p.known
          /\ p.total = SumOver([i \in Surviving |-> Len(CommitsOf(i))])
          /\ Partitioned(p)
          /\ HistogramSum(p.hourly_distribution) =
                SumOver([i \in Surviving |->
                    HistogramSum(collected[i].stats.commit_patterns.hourly_distribution)])

\* C36 witness: the report of two repositories with nine commits between
\* them: one feat, one fix, one ci and six others, among them a word that is
\* no type and messages without a prefix; six of the nine have a date, four
\* in hour 1 and two in hour 23.
C36_Witness ==
    /\ phase = "returned" /\ Cardinality(Surviving) = 2
    /\ LET p == report.body.commit_patterns IN
       /\ p.total = 9 /\ p.feat = 1 /\ p.fix = 1 /\ p.ci = 1 /\ p.other = 6
       /\ Len(p.hourly_distribution) = 2
       /\ \E x \in 1..2 : p.hourly_distribution[x] = [name |-> 1, count |-> 4]
       /\ \E x \in 1..2 : p.hourly_distribution[x] = [name |-> 23, count |-> 2]
       /\ HistogramSum(p.weekday_distribution) = 6

\* The merge-latency samples of a list of pull requests, in seconds, by the
\* index of the pull request: those whose creation and merge times are both
\* times, the merge not before the creation.
Samples(prs) ==
    LET with == {k \in 1..Len(prs) :
                    /\ prs[k].created_at.set /\ prs[k].created_at.iso
                    /\ prs[k].merged_at.set /\ prs[k].merged_at.iso
                    /\ prs[k].merged_at.v >= prs[k].created_at.v}
    IN  [k \in with |-> prs[k].merged_at.v - prs[k].created_at.v]

\* x is the sample at position p (from 0) of the samples in ascending order.
AtPosition(samples, x, p) ==
    /\ \E k \in DOMAIN samples : samples[k] = x
    /\ Cardinality({k \in DOMAIN samples : samples[k] < x}) <= p
    /\ Cardinality({k \in DOMAIN samples : samples[k] <= x}) > p

\* Twice the median of the samples, in seconds: the sum of the two middle
\* samples, which are one and the same for an odd count.
TwiceMedian(samples) ==
    LET n == Cardinality(DOMAIN samples)
        lo == CHOOSE x \in {samples[k] : k \in DOMAIN samples} :
                  AtPosition(samples, x, (n - 1) \div 2)
        hi == CHOOSE x \in {samples[k] : k \in DOMAIN samples} :
                  AtPosition(samples, x, n \div 2)
    IN  lo + hi

\* r tenths is num / den rounded to one decimal, a tie going to the even
\* digit.
IsRounded1(r, num, den) ==
    LET e == r * den - 10 * num
        dist == IF e < 0 THEN 0 - e ELSE e
    IN  2 * dist < den \/ (2 * dist = den /\ r % 2 = 0)

\* The median of the report, merged from the RepoStats, is null.
OrgMedianNull ==
    (phase = "returned" /\ report.body.pr_insights.known) =>
        report.body.pr_insights.median_merge_hours = None

\* C37 as stated: the median merge latency of a RepoStats is the middle one
\* of its samples in ascending order, or the mean of the two middle ones,
\* and null without a sample; the median of the report is null.
C37_MedianOfSamples ==
    /\ \A i \in Surviving :
          LET samples == Samples(PullsOf(i))
              median == collected[i].stats.pr_insights.median_merge_hours
          IN  IF DOMAIN samples = {}
              THEN median = None
              ELSE /\ median.known
                   /\ median.v * 2 * 3600 = 10 * TwiceMedian(samples)
    /\ OrgMedianNull

\* C37: the median merge latency of a RepoStats is the middle one of its
\* samples in ascending order, or the mean of the two middle ones, rounded
\* to one decimal of an hour, and null without a sample; the median of the
\* report is null.
C37_MedianRounded ==
    /\ \A i \in Surviving :
          LET samples == Samples(PullsOf(i))
              median == collected[i].stats.pr_insights.median_merge_hours
          IN  IF DOMAIN samples = {}
              THEN median = None
              ELSE /\ median.known
                   /\ IsRounded1(median.v, TwiceMedian(samples), 2 * 3600)
    /\ OrgMedianNull

\* C37 witness: two samples of 1 hour and 1 hour and a half have the median
\* 1.2, and the report of the repository has none.
C37_Witness ==
    /\ phase = "returned" /\ report.body.pr_insights.known
    /\ \E i \in Surviving :
          /\ Cardinality(DOMAIN Samples(PullsOf(i))) = 2
          /\ TwiceMedian(Samples(PullsOf(i))) = 9000
          /\ collected[i].stats.pr_insights.median_merge_hours = Some(12)

\* Samples of 12 and 48 hours have the median 30.0; samples of 12, 48 and 24
\* hours, with a pull request merged before its creation left out, have the
\* median 24.0.
C37_EvenCount ==
    \E i \in Surviving :
        /\ {Samples(PullsOf(i))[k] : k \in DOMAIN Samples(PullsOf(i))}
              = {Hours(12), Hours(48)}
        /\ collected[i].stats.pr_insights.median_merge_hours = Some(300)
C37_OddCount ==
    \E i \in Surviving :
        /\ Len(PullsOf(i)) = 4
        /\ {Samples(PullsOf(i))[k] : k \in DOMAIN Samples(PullsOf(i))}
              = {Hours(12), Hours(24), Hours(48)}
        /\ collected[i].stats.pr_insights.median_merge_hours = Some(240)

\* A ContributorTrend has at least one active week, no more active weeks
\* than weeks in its span, and a first week not after its last.
TrendBounded(t) ==
    /\ 1 <= t.active_weeks
    /\ t.active_weeks <= t.total_weeks
    /\ t.first_active_week <= t.last_active_week

\* C38: every ContributorTrend of a RepoStats and of the report has
\* 1 <= active_weeks <= total_weeks and first_active_week <=
\* last_active_week, whatever the weekly records are (repeated or not
\* aligned to weeks included) and however many repositories are merged.
C38_TrendBounds ==
    /\ \A i \in Surviving :
          \A k \in 1..Len(collected[i].stats.contributor_trends) :
              TrendBounded(collected[i].stats.contributor_trends[k])
    /\ phase = "returned" =>
          \A k \in 1..Len(report.body.contributor_trends) :
              TrendBounded(report.body.contributor_trends[k])

\* The weekly records of the statistics of repository i have distinct
\* timestamps a whole number of weeks apart.
WeeksApart(i) ==
    \A c \in {StatisticsOf(i)[k] : k \in 1..Len(StatisticsOf(i))} :
        \A x, y \in 1..Len(c.weeks) :
            /\ x # y => c.weeks[x].w # c.weeks[y].w
            /\ (c.weeks[x].w - c.weeks[y].w) % WeekSeconds = 0

\* The trends of a repository whose records are a whole number of weeks
\* apart are bounded, and so is every trend of the report that two or more
\* repositories were merged into.
C38_BoundedWhenWeeksApart ==
    /\ \A i \in Surviving :
          WeeksApart(i) =>
              \A k \in 1..Len(collected[i].stats.contributor_trends) :
                  TrendBounded(collected[i].stats.contributor_trends[k])
    /\ phase = "returned" =>
          \A k \in 1..Len(report.body.contributor_trends) :
              LET t == report.body.contributor_trends[k]
                  sources == {i \in Surviving :
                                 \E j \in 1..Len(collected[i].stats.contributor_trends) :
                                     collected[i].stats.contributor_trends[j].username
                                         = t.username}
              IN  (Cardinality(sources) >= 2 \/ \A i \in sources : WeeksApart(i))
                      => TrendBounded(t)

\* A record given twice makes a trend of two active weeks in a span of one
\* in the RepoStats; two records a day apart make one in the report.
C38_RepeatedWeek ==
    \E i \in Surviving :
        /\ \E x, y \in 1..Len(StatisticsOf(i)[1].weeks) :
              x # y /\ StatisticsOf(i)[1].weeks[x].w = StatisticsOf(i)[1].weeks[y].w
        /\ collected[i].stats.contributor_trends[1].active_weeks = 2
        /\ collected[i].stats.contributor_trends[1].total_weeks = 1
C38_MoreActiveThanSpan ==
    /\ phase = "returned"
    /\ \E k \in 1..Len(report.body.contributor_trends) :
          /\ report.body.contributor_trends[k].username = "bob"
          /\ report.body.contributor_trends[k].active_weeks = 2
          /\ report.body.contributor_trends[k].total_weeks = 1

\* ------------------------------------------------- claims on the client (4)
\* The tasks asleep between two attempts of get_contributor_stats.
BackingOff == {t \in Tasks : pc[t] = "backoff"}

\* C39: a task asleep between two attempts of get_contributor_stats holds no
\* permit: the free permits and the permits of the tasks inside _get make up
\* the whole capacity, the sleepers not counted, so that a free permit is
\* there for another task whenever fewer than Concurrency tasks are inside
\* _get.  The attempt after the sleep starts _get anew: it queues when no
\* permit is free, and otherwise takes one and passes the Rate Governor's
\* check, sleeping there or sending its request.
C39_BackoffHoldsNoPermit ==
    /\ BackingOff # {} =>
          /\ BackingOff \cap Holders = {}
          /\ \A t \in BackingOff : \A k \in 1..Len(waiters) : waiters[k] # t
          /\ sem + Cardinality(Holders) = Concurrency
    /\ \A t \in BackingOff :
          LET w == ResumeOp(World, t) IN
          /\ tv[t].attempt + 1 < tv[t].retries
          /\ w.tv[t].attempt = tv[t].attempt + 1
          /\ IF sem = 0 \/ waiters # <<>> \/ \E u \in Tasks : pc[u] = "granted"
             THEN /\ w.pc[t] = "sem_wait"
                  /\ w.waiters = Append(waiters, t)
                  /\ w.sem = sem
                  /\ w.tv[t].reqs = tv[t].reqs
             ELSE /\ w.sem = sem - 1
                  /\ w.waiters = waiters
                  /\ IF remaining.known /\ remaining.v <= Threshold /\ reset_at.known
                     THEN /\ w.pc[t] = "rate_wait"
                          /\ w.wake[t] > now
                          /\ w.tv[t].reqs = tv[t].reqs
                     ELSE /\ w.pc[t] = "in_flight"
                          /\ w.tv[t].reqs = tv[t].reqs + 1

\* C39 witness: a task that has retried once is asleep before its third
\* attempt while the request of another task is in flight.
C39_Witness ==
    \E t \in BackingOff, u \in Tasks :
        /\ tv[t].attempt = 1 /\ tv[t].reqs = 2
        /\ pc[u] = "in_flight"
        /\ sem = Concurrency - 1

\* A retry waits for a permit; a retry sleeps in the Rate Governor's check.
C39_RetryQueued ==
    \E t \in Stats : pc[t] = "sem_wait" /\ tv[t].attempt >= 1
C39_RetryWaits ==
    \E t \in Stats : pc[t] = "rate_wait" /\ tv[t].attempt >= 1 /\ tv[t].reqs = tv[t].attempt

C40_Returned ==
    /\ phase = "returned" /\ Len(repos) = 1
    /\ \A t \in Tasks : pc[t] = "done" /\ tv[t].reqs >= 1
C40_Raised == phase = "raised" /\ \A t \in 1..2 : pc[t] = "idle"
C40_Failed ==
    /\ phase = "returned" /\ failed_repos = <<"r1">>
    /\ \A t \in Tasks : pc[t] = "done"

====
